---------------------------- MODULE Spec2Model ----------------------------
(***************************************************************************)
(* Model of the suggestion pipeline of the dashboard backend:              *)
(*   backend/services/aiService.js   (AIService)                           *)
(*   backend/services/calculator.js  (Calculator, KPI computation)         *)
(*   backend/services/dataProcessor.js (measure / dimension split)         *)
(*   backend/routes/api.js           (cache-maintenance hosts)             *)
(*                                                                         *)
(* JavaScript values are tagged records; strings are sequences of          *)
(* one-character strings so that the string functions of the source        *)
(* (toLowerCase, includes, replace, base64, slice) are computed.           *)
(***************************************************************************)
EXTENDS Integers, Sequences, FiniteSets, TLC

VARIABLES
    apiKey,      \* this.apiKey is configured (aiService.js:5)
    cache,       \* this.cache, a Map from cache key to suggestions (aiService.js:9)
    calls,       \* the getSuggestions invocations, each with its position
    hostFault,   \* outcome of the last cache-maintenance host run (api.js)
    sessions,    \* ids in the sessions Map of api.js:19
    vSchema,     \* validation harness: the schema argument
    vCandidate,  \* validation harness: the parsed candidate
    vOutcome,    \* validation harness: what validateSuggestions / parseAIResponse gave
    rows,        \* the row set given to generateSchema, prepareChartData, applyFilters
    inferred,    \* what generateSchema gave for rows
    cDefinition, \* chart harness: the chart definition
    cOutcome,    \* chart harness: the chart data built from rows and cDefinition
    fFilters,    \* filter harness: the second argument of applyFilters
    fLimit,      \* filter harness: the dataLimit a route passes as third argument
    fOutcome,    \* filter harness: what applyFilters gave
    dashboardData,   \* Dashboard: the dashboardData state (part_003:52)
    activeFiltersState, \* Dashboard: the activeFilters state (part_003:54)
    chartsUpdating,  \* Dashboard: the chartsUpdating state (part_003:58)
    dataLimitState,  \* Dashboard: the dataLimit state (part_003:61)
    performanceMode, \* Dashboard: the performanceMode state (part_003:62)
    requests,        \* Dashboard: the generateDashboard requests in issue order
    customCharts,    \* api.js: sessionData.customCharts of each session
    now,             \* api.js: the last reading of Date.now()
    res              \* api.js: the response of the last custom chart request

vars == <<apiKey, cache, calls, hostFault, sessions, vSchema, vCandidate, vOutcome,
          rows, inferred, cDefinition, cOutcome, fFilters, fLimit, fOutcome,
          dashboardData, activeFiltersState, chartsUpdating, dataLimitState,
          performanceMode, requests, customCharts, now, res>>
serviceVars == <<apiKey, cache, calls, hostFault, sessions>>
harnessVars == <<vSchema, vCandidate, vOutcome>>
calcVars == <<rows, inferred, cDefinition, cOutcome, fFilters, fLimit, fOutcome>>
dashboardVars == <<dashboardData, activeFiltersState, chartsUpdating, dataLimitState,
                   performanceMode, requests>>
routeVars == <<customCharts, now, res>>

-----------------------------------------------------------------------------
(* Bounds of the model *)

MaxItems == 3
MaxCalls == 3

-----------------------------------------------------------------------------
(* JavaScript values *)

Undefined == [t |-> "undefined"]
Null == [t |-> "null"]
Str(s) == [t |-> "string", v |-> s]
Num(n) == [t |-> "number", v |-> n]
Arr(s) == [t |-> "array", v |-> s]
Obj(r) == [t |-> "object", v |-> r]
Bool(b) == [t |-> "boolean", v |-> b]

\* ToBoolean: undefined, null, "", 0, false are falsy; arrays and objects are truthy
Truthy(x) ==
    CASE x.t = "undefined" -> FALSE
      [] x.t = "null" -> FALSE
      [] x.t = "string" -> x.v # <<>>
      [] x.t = "number" -> x.v # 0
      [] x.t = "boolean" -> x.v
      [] OTHER -> TRUE

\* a || b
OrElse(a, b) == IF Truthy(a) THEN a ELSE b

\* o.k : reading a property of undefined or null throws a TypeError; of a
\* primitive or of an object without the property it gives undefined
CanRead(o) == o.t \notin {"undefined", "null"}
Get(o, k) == IF o.t = "object" /\ k \in DOMAIN o.v THEN o.v[k] ELSE Undefined

IsArray(x) == x.t = "array"

-----------------------------------------------------------------------------
(* Strings *)

LowerCase == <<"a","b","c","d","e","f","g","h","i","j","k","l","m",
               "n","o","p","q","r","s","t","u","v","w","x","y","z">>
UpperCase == <<"A","B","C","D","E","F","G","H","I","J","K","L","M",
               "N","O","P","Q","R","S","T","U","V","W","X","Y","Z">>
Digits == <<"0","1","2","3","4","5","6","7","8","9">>

Range(s) == {s[i] : i \in DOMAIN s}
IndexOf(seq, c) == CHOOSE i \in DOMAIN seq : seq[i] = c

toUpperCase(c) == IF c \in Range(LowerCase) THEN UpperCase[IndexOf(LowerCase, c)] ELSE c
toLowerCaseChar(c) == IF c \in Range(UpperCase) THEN LowerCase[IndexOf(UpperCase, c)] ELSE c
toLowerCase(s) == [i \in DOMAIN s |-> toLowerCaseChar(s[i])]

\* \w of a regular expression
IsWordChar(c) == c \in Range(LowerCase) \cup Range(UpperCase) \cup Range(Digits) \cup {"_"}

includes(s, sub) ==
    \E i \in 0..(Len(s) - Len(sub)) : SubSeq(s, i + 1, i + Len(sub)) = sub

slice(s, n) == SubSeq(s, 1, IF Len(s) < n THEN Len(s) ELSE n)

RECURSIVE join(_, _)
join(parts, sep) ==
    IF parts = <<>> THEN <<>>
    ELSE IF Len(parts) = 1 THEN parts[1]
    ELSE parts[1] \o sep \o join(Tail(parts), sep)


\* code units of the characters the model's strings are made of (ASCII)
Punctuation == <<" ", "%", "*", "-", ":", "_", "|">>
PunctuationCode == <<32, 37, 42, 45, 58, 95, 124>>

charCodeAt(c) ==
    IF c \in Range(LowerCase) THEN 96 + IndexOf(LowerCase, c)
    ELSE IF c \in Range(UpperCase) THEN 64 + IndexOf(UpperCase, c)
    ELSE IF c \in Range(Digits) THEN 47 + IndexOf(Digits, c)
    ELSE PunctuationCode[IndexOf(Punctuation, c)]

\* Buffer.from(s): the bytes of an ASCII string
BufferFrom(s) == [i \in DOMAIN s |-> charCodeAt(s[i])]

Base64Alphabet == UpperCase \o LowerCase \o Digits \o <<"+", "/">>
Sextet(n) == Base64Alphabet[(n % 64) + 1]

\* buf.toString('base64'): three bytes give four characters, the tail is padded
RECURSIVE toBase64(_)
toBase64(b) ==
    IF Len(b) = 0 THEN <<>>
    ELSE IF Len(b) = 1 THEN
        LET n == b[1] * 16
        IN  <<Sextet(n \div 64), Sextet(n), "=", "=">>
    ELSE IF Len(b) = 2 THEN
        LET n == (b[1] * 256 + b[2]) * 4
        IN  <<Sextet(n \div 4096), Sextet(n \div 64), Sextet(n), "=">>
    ELSE
        LET n == b[1] * 65536 + b[2] * 256 + b[3]
        IN  <<Sextet(n \div 262144), Sextet(n \div 4096), Sextet(n \div 64), Sextet(n)>>
            \o toBase64(SubSeq(b, 4, Len(b)))

-----------------------------------------------------------------------------
(* Column names and schemas *)

region == <<"r","e","g","i","o","n">>
revenue == <<"r","e","v","e","n","u","e">>
rate == <<"r","a","t","e">>
units == <<"u","n","i","t","s">>
day == <<"d","a","y">>
blank == <<>>
ghost == <<"g","h","o","s","t">>
star == <<"*">>

TypeName(t) ==
    CASE t = "number" -> <<"n","u","m","b","e","r">>
      [] t = "date" -> <<"d","a","t","e">>
      [] OTHER -> <<"s","t","r","i","n","g">>

\* columnInfo of generateSchema, with the fields the suggestion side reads
Column(n, t, u) == [name |-> n, type |-> t, uniqueValues |-> u]

MeasureThreshold == 5

\* the classification loop with >= for > in the test of line 174
RECURSIVE Classify_AtLeastThreshold(_, _)
Classify_AtLeastThreshold(cols, acc) ==
    IF cols = <<>> THEN acc
    ELSE LET c == Head(cols)
             next == IF c.type = "number" /\ c.uniqueValues >= MeasureThreshold
                     THEN [acc EXCEPT !.columns = Append(@, c), !.measures = Append(@, c)]
                     ELSE [acc EXCEPT !.columns = Append(@, c), !.dimensions = Append(@, c)]
         IN  Classify_AtLeastThreshold(Tail(cols), next)

\* the classification loop of generateSchema over the column infos, in order
RECURSIVE Classify(_, _)
Classify(cols, acc) ==
    IF cols = <<>> THEN acc
    ELSE LET c == Head(cols)
             next == IF c.type = "number" /\ c.uniqueValues > MeasureThreshold
                     THEN [acc EXCEPT !.columns = Append(@, c), !.measures = Append(@, c)]
                     ELSE [acc EXCEPT !.columns = Append(@, c), !.dimensions = Append(@, c)]
         IN  Classify(Tail(cols), next)

SchemaOf(cols) == Classify(cols, [columns |-> <<>>, measures |-> <<>>, dimensions |-> <<>>])

\* column infos as generateSchema computes them from a row set
RegionCol == Column(region, "string", 3)
RevenueCol == Column(revenue, "number", 12)
RateCol == Column(rate, "number", 8)
UnitsCol == Column(units, "number", 5)
DayCol == Column(day, "date", 11)
BlankCol == Column(blank, "number", 6)

\* the column lists of the row sets considered: no column (a row without
\* keys), dimensions only, measures only, a number column with exactly 5
\* distinct values, a date column, a column whose header is empty, and two
\* lists that agree on their first 15 characters of name:type pairs
ColumnLists ==
    { <<>>,
      <<RegionCol>>,
      <<RevenueCol>>,
      <<RegionCol, RevenueCol>>,
      <<RegionCol, RateCol>>,
      <<RevenueCol, RateCol, RegionCol>>,
      <<UnitsCol, RevenueCol>>,
      <<DayCol, RegionCol, RevenueCol>>,
      <<BlankCol, RevenueCol, RegionCol>> }

Schemas == {SchemaOf(cs) : cs \in ColumnLists}

MeasureNames(schema) == {schema.measures[i].name : i \in DOMAIN schema.measures}
DimensionNames(schema) == {schema.dimensions[i].name : i \in DOMAIN schema.dimensions}

-----------------------------------------------------------------------------
(* AIService helpers *)

CacheKeyLength == 20

generateCacheKey(schema) ==
    LET key == join([i \in DOMAIN schema.columns |->
                        schema.columns[i].name \o <<":">> \o TypeName(schema.columns[i].type)],
                    <<"|">>)
    IN  slice(toBase64(BufferFrom(key)), CacheKeyLength)

\* name.replace(/[_-]/g, ' ').replace(/\b\w/g, l => l.toUpperCase())
formatColumnName(name) ==
    LET spaced == [i \in DOMAIN name |-> IF name[i] \in {"_", "-"} THEN " " ELSE name[i]]
    IN  [i \in DOMAIN spaced |->
            IF IsWordChar(spaced[i]) /\ (i = 1 \/ ~IsWordChar(spaced[i - 1]))
            THEN toUpperCase(spaced[i]) ELSE spaced[i]]

guessNumberFormat(columnName) ==
    LET name == toLowerCase(columnName)
    IN  IF \/ includes(name, <<"r","e","v","e","n","u","e">>)
           \/ includes(name, <<"s","a","l","e","s">>)
           \/ includes(name, <<"p","r","i","c","e">>)
           \/ includes(name, <<"c","o","s","t">>)
        THEN <<"c","u","r","r","e","n","c","y">>
        ELSE IF \/ includes(name, <<"p","e","r","c","e","n","t">>)
                \/ includes(name, <<"r","a","t","e">>)
                \/ includes(name, <<"%">>)
        THEN <<"p","e","r","c","e","n","t">>
        ELSE <<"n","u","m","b","e","r">>
\* String(n) for a non-negative integer
RECURSIVE numberToString(_)
numberToString(n) ==
    IF n < 10 THEN <<Digits[n + 1]>>
    ELSE numberToString(n \div 10) \o <<Digits[(n % 10) + 1]>>

\* arr.slice(0, n)
Take(seq, n) == SubSeq(seq, 1, IF Len(seq) < n THEN Len(seq) ELSE n)

FallbackLimit == 4
PieMaxUnique == 10

\* the index of the last date dimension, 0 if none
FindDateDimension_Last(dimensions) ==
    IF \E i \in DOMAIN dimensions : dimensions[i].type = "date"
    THEN CHOOSE i \in DOMAIN dimensions :
            /\ dimensions[i].type = "date"
            /\ \A j \in (i + 1)..Len(dimensions) : dimensions[j].type # "date"
    ELSE 0

\* dimensions.find(d => d.type === 'date'): index of the first date dimension, 0 if none
FindDateDimension(dimensions) ==
    IF \E i \in DOMAIN dimensions : dimensions[i].type = "date"
    THEN CHOOSE i \in DOMAIN dimensions :
            /\ dimensions[i].type = "date"
            /\ \A j \in 1..(i - 1) : dimensions[j].type # "date"
    ELSE 0

getFallbackSuggestions(schema) ==
    LET firstMeasures == Take(schema.measures, FallbackLimit)
        sumKpis == [i \in DOMAIN firstMeasures |->
                      [name |-> Str(<<"T","o","t","a","l"," ">> \o formatColumnName(firstMeasures[i].name)),
                       calculation |-> Str(<<"s","u","m">>),
                       column |-> Str(firstMeasures[i].name),
                       format |-> Str(guessNumberFormat(firstMeasures[i].name))]]
        countKpi == [name |-> Str(<<"T","o","t","a","l"," ","R","e","c","o","r","d","s">>),
                     calculation |-> Str(<<"c","o","u","n","t">>),
                     column |-> Str(star),
                     format |-> Str(<<"n","u","m","b","e","r">>)]
        kpis == IF Len(schema.columns) > 0 THEN <<countKpi>> \o sumKpis ELSE sumKpis
        hasBoth == Len(schema.measures) > 0 /\ Len(schema.dimensions) > 0
        primaryMeasure == schema.measures[1]
        primaryDimension == schema.dimensions[1]
        barChart == [title |-> Str(formatColumnName(primaryMeasure.name) \o <<" ","b","y"," ">>
                                    \o formatColumnName(primaryDimension.name)),
                     type |-> Str(<<"b","a","r">>),
                     measures |-> <<Str(primaryMeasure.name)>>,
                     dimensions |-> <<Str(primaryDimension.name)>>]
        lineChart == [title |-> Str(formatColumnName(primaryMeasure.name) \o <<" ","T","r","e","n","d">>),
                      type |-> Str(<<"l","i","n","e">>),
                      measures |-> <<Str(primaryMeasure.name)>>,
                      dimensions |-> <<Str(primaryDimension.name)>>]
        pieChart == [title |-> Str(formatColumnName(primaryMeasure.name) \o <<" ","D","i","s","t","r","i","b","u","t","i","o","n">>),
                     type |-> Str(<<"p","i","e">>),
                     measures |-> <<Str(primaryMeasure.name)>>,
                     dimensions |-> <<Str(primaryDimension.name)>>]
        timeIndex == FindDateDimension(schema.dimensions)
        areaChart == [title |-> Str(formatColumnName(primaryMeasure.name) \o <<" ","O","v","e","r"," ","T","i","m","e">>),
                      type |-> Str(<<"a","r","e","a">>),
                      measures |-> <<Str(primaryMeasure.name)>>,
                      dimensions |-> <<Str(schema.dimensions[timeIndex].name)>>]
        charts == IF hasBoth
                  THEN <<barChart>>
                       \o (IF Len(schema.measures) > 1 THEN <<lineChart>> ELSE <<>>)
                       \o (IF primaryDimension.uniqueValues <= PieMaxUnique THEN <<pieChart>> ELSE <<>>)
                       \o (IF timeIndex # 0 THEN <<areaChart>> ELSE <<>>)
                  ELSE <<>>
    IN  [kpis |-> Take(kpis, FallbackLimit),
         charts |-> Take(charts, FallbackLimit),
         insights |-> Arr(<<Str(<<"D","a","s","h","b","o","a","r","d"," ","g","e","n","e","r","a","t","e","d"," ","u","s","i","n","g"," ","s","m","a","r","t"," ","d","e","f","a","u","l","t","s">>),
                            Str(<<"C","u","s","t","o","m","i","z","e"," ","b","y"," ","s","e","l","e","c","t","i","n","g"," ","d","i","f","f","e","r","e","n","t"," ","m","e","a","s","u","r","e","s"," ","a","n","d"," ","d","i","m","e","n","s","i","o","n","s">>),
                            Str(<<"F","o","u","n","d"," ">> \o numberToString(Len(schema.measures))
                                \o <<" ","n","u","m","e","r","i","c"," ","c","o","l","u","m","n","s"," ","a","n","d"," ">>
                                \o numberToString(Len(schema.dimensions))
                                \o <<" ","c","a","t","e","g","o","r","i","c","a","l"," ","c","o","l","u","m","n","s">>)>>)]
\* getFallbackSuggestions tabulated over the schemas of the model, so that
\* each call site reads the value the function computes for its schema
FallbackSuggestions == [schema \in Schemas |-> getFallbackSuggestions(schema)]

-----------------------------------------------------------------------------
(* Outcomes of a call: a returned value or a thrown error *)

Return(v) == [threw |-> FALSE, value |-> v]
Throw(e) == [threw |-> TRUE, error |-> e]

-----------------------------------------------------------------------------
(* AIService.validateSuggestions *)

\* schema.measures.find(m => m.name === x): strict equality with a string
IsMeasureName(x, schema) == x.t = "string" /\ x.v \in MeasureNames(schema)
IsDimensionName(x, schema) == x.t = "string" /\ x.v \in DimensionNames(schema)

\* line 421 without the test that the column is a measure or "*"
KpiAccepted_AnyColumn(kpi, schema) ==
    Truthy(Get(kpi, "name")) /\ Truthy(Get(kpi, "column"))

\* the condition of line 421
KpiAccepted(kpi, schema) ==
    /\ Truthy(Get(kpi, "name"))
    /\ Truthy(Get(kpi, "column"))
    /\ (IsMeasureName(Get(kpi, "column"), schema) \/ Get(kpi, "column") = Str(star))

\* the validKpi object of lines 422-427
ValidKpi(kpi) ==
    [name |-> Get(kpi, "name"),
     calculation |-> OrElse(Get(kpi, "calculation"), Str(<<"s","u","m">>)),
     column |-> Get(kpi, "column"),
     format |-> OrElse(Get(kpi, "format"), Str(<<"n","u","m","b","e","r">>))]

\* the condition of line 442
ChartComplete(chart) ==
    /\ Truthy(Get(chart, "title"))
    /\ Truthy(Get(chart, "type"))
    /\ Truthy(Get(chart, "measures"))
    /\ Truthy(Get(chart, "dimensions"))

\* chart.measures.filter(...) and chart.dimensions.filter(...)
ValidMeasures(chart, schema) ==
    LET Keep(m) == IsMeasureName(m, schema)
    IN  SelectSeq(Get(chart, "measures").v, Keep)

ValidDimensions(chart, schema) ==
    LET Keep(d) == IsDimensionName(d, schema)
    IN  SelectSeq(Get(chart, "dimensions").v, Keep)

\* a complete chart whose measures or dimensions has no filter method
ChartFilterFails(chart) ==
    ChartComplete(chart) /\ (~IsArray(Get(chart, "measures")) \/ ~IsArray(Get(chart, "dimensions")))

\* the conditions of lines 442 and 453
ChartAccepted(chart, schema) ==
    /\ ChartComplete(chart)
    /\ Len(ValidMeasures(chart, schema)) > 0
    /\ Len(ValidDimensions(chart, schema)) > 0

\* the validChart object of lines 454-459
ValidChart(chart, schema) ==
    [title |-> Get(chart, "title"),
     type |-> Get(chart, "type"),
     measures |-> ValidMeasures(chart, schema),
     dimensions |-> ValidDimensions(chart, schema)]

\* the entries the two forEach loops visit: none unless the field is an array
KpiEntries(suggestions) ==
    LET f == Get(suggestions, "kpis") IN IF Truthy(f) /\ IsArray(f) THEN f.v ELSE <<>>

ChartEntries(suggestions) ==
    LET f == Get(suggestions, "charts") IN IF Truthy(f) /\ IsArray(f) THEN f.v ELSE <<>>

AcceptedKpis(suggestions, schema) ==
    LET Keep(k) == KpiAccepted(k, schema)
        kept == SelectSeq(KpiEntries(suggestions), Keep)
    IN  [i \in DOMAIN kept |-> ValidKpi(kept[i])]

AcceptedCharts(suggestions, schema) ==
    LET Keep(c) == ChartAccepted(c, schema)
        kept == SelectSeq(ChartEntries(suggestions), Keep)
    IN  [i \in DOMAIN kept |-> ValidChart(kept[i], schema)]

\* property reads and method calls of validateSuggestions that raise a TypeError
ValidateThrows(suggestions) ==
    \/ ~CanRead(suggestions)
    \/ \E i \in DOMAIN KpiEntries(suggestions) : ~CanRead(KpiEntries(suggestions)[i])
    \/ \E i \in DOMAIN ChartEntries(suggestions) :
          \/ ~CanRead(ChartEntries(suggestions)[i])
          \/ ChartFilterFails(ChartEntries(suggestions)[i])

\* line 472 with && for ||: the fallback only when both lists are empty
validateSuggestions_BothEmpty(suggestions, schema) ==
    IF ValidateThrows(suggestions) THEN Throw("TypeError")
    ELSE LET kpis == AcceptedKpis(suggestions, schema)
             charts == AcceptedCharts(suggestions, schema)
         IN  IF Len(kpis) = 0 /\ Len(charts) = 0
             THEN Return(FallbackSuggestions[schema])
             ELSE Return([kpis |-> kpis,
                          charts |-> charts,
                          insights |-> OrElse(Get(suggestions, "insights"), Arr(<<>>))])

validateSuggestions(suggestions, schema) ==
    IF ValidateThrows(suggestions) THEN Throw("TypeError")
    ELSE LET kpis == AcceptedKpis(suggestions, schema)
             charts == AcceptedCharts(suggestions, schema)
         IN  IF Len(kpis) = 0 \/ Len(charts) = 0
             THEN Return(FallbackSuggestions[schema])
             ELSE Return([kpis |-> kpis,
                          charts |-> charts,
                          insights |-> OrElse(Get(suggestions, "insights"), Arr(<<>>))])

-----------------------------------------------------------------------------
(* AIService.parseAIResponse *)

\* The text of a response is the payload it carries and how it is wrapped:
\* a fenced code block, a bare object, an object inside prose, or text that
\* holds no JSON at all
Malformed == [t |-> "malformed"]
Content(wrapper, payload) == [wrapper |-> wrapper, payload |-> payload]

\* lines 385-386: the fenced group, else the span from the first { to the
\* last }, else the whole text. A payload that is not an object has no
\* braces to match, so inside prose the whole text goes to JSON.parse
ExtractJson(content) ==
    IF content.wrapper = "prose" /\ content.payload.t # "object"
    THEN Malformed
    ELSE content.payload

\* JSON.parse
JSONparse(text) == IF text = Malformed THEN Throw("SyntaxError") ELSE Return(text)

parseAIResponse(content, schema) ==
    LET parsed == JSONparse(ExtractJson(content))
        validated == IF parsed.threw THEN parsed ELSE validateSuggestions(parsed.value, schema)
    IN  IF validated.threw THEN FallbackSuggestions[schema] ELSE validated.value
-----------------------------------------------------------------------------
(* Candidate suggestion payloads *)

Kpi(name, column, calculation, format) ==
    Obj([name |-> name, column |-> column, calculation |-> calculation, format |-> format])

Chart(title, type, measures, dimensions) ==
    Obj([title |-> title, type |-> type, measures |-> measures, dimensions |-> dimensions])

\* entries a kpis list may hold; an absent property reads as undefined
KpiPool ==
    { Kpi(Str(<<"T","o","t","a","l">>), Str(revenue), Undefined, Undefined),
      Kpi(Str(<<"R","e","c","o","r","d","s">>), Str(star), Str(<<"m","e","d","i","a","n">>), Str(<<"h","e","x">>)),
      Kpi(Str(blank), Str(rate), Str(<<"m","a","x">>), Str(<<"n","u","m","b","e","r">>)),
      Kpi(Str(<<"B","l","a","n","k">>), Str(blank), Str(<<"m","i","n">>), Undefined),
      Null }

\* entries a charts list may hold
ChartPool ==
    { Chart(Str(<<"A">>), Str(<<"b","a","r">>), Arr(<<Str(revenue)>>), Arr(<<Str(region)>>)),
      Chart(Str(<<"B">>), Str(<<"r","a","d","a","r">>), Arr(<<Str(ghost), Str(rate), Str(revenue)>>),
            Arr(<<Str(day), Str(ghost), Str(region)>>)),
      Chart(Undefined, Str(<<"p","i","e">>), Arr(<<Str(revenue)>>), Arr(<<Str(region)>>)),
      Chart(Str(<<"E">>), Str(<<"p","i","e">>), Str(revenue), Arr(<<Str(region)>>)),
      Null }

InsightValues == {Undefined, Arr(<<Str(<<"n","o","t","e">>)>>), Str(<<"n","o","t","e">>)}

ListsUpTo(pool, n) == UNION {[1..k -> pool] : k \in 0..n}

\* parsed payloads: objects whose kpis and charts lists hold at most
\* MaxItems entries together, objects with a field that is no list, and
\* values that are no object
Candidates ==
    { Obj([kpis |-> Arr(l[1]), charts |-> Arr(l[2]), insights |-> ins]) :
        l \in {m \in ListsUpTo(KpiPool, MaxItems) \X ListsUpTo(ChartPool, MaxItems) :
                  Len(m[1]) + Len(m[2]) <= MaxItems},
        ins \in InsightValues }
    \cup { Obj([kpis |-> k, charts |-> c, insights |-> Undefined]) :
             k \in {Undefined, Str(<<"n","o","n","e">>)}, c \in {Undefined, Str(<<"n","o","n","e">>)} }
    \cup { Null, Num(7) }

-----------------------------------------------------------------------------
(* Calculator: KPI computation *)

\* JavaScript numbers that the KPI arithmetic produces: num / den with
\* den > 0, and den = 0 for Infinity (num = 1), -Infinity (num = -1)
Rational(num, den) == [num |-> num, den |-> den]
IsFinite(x) == x.den # 0

NotANumber == [nan |-> TRUE]
Parsed(n) == [nan |-> FALSE, v |-> n]

\* the value of a run of decimal digits
RECURSIVE digitsValue(_)
digitsValue(ds) ==
    IF ds = <<>> THEN 0
    ELSE 10 * digitsValue(SubSeq(ds, 1, Len(ds) - 1)) + (IndexOf(Digits, ds[Len(ds)]) - 1)

\* the longest prefix of s made of digits
RECURSIVE digitPrefix(_)
digitPrefix(s) ==
    IF s = <<>> \/ s[1] \notin Range(Digits) THEN <<>>
    ELSE <<s[1]>> \o digitPrefix(Tail(s))

RECURSIVE trimStart(_)
trimStart(s) == IF s # <<>> /\ s[1] = " " THEN trimStart(Tail(s)) ELSE s

\* parseFloat on the cells of the model: numbers, strings holding an
\* optional sign and an integer prefix, and everything else (NaN)
parseFloat(x) ==
    IF x.t = "number" THEN Parsed(x.v)
    ELSE IF x.t = "string" THEN
        LET body == trimStart(x.v)
            negative == body # <<>> /\ body[1] = "-"
            unsigned == IF body # <<>> /\ body[1] \in {"-", "+"} THEN Tail(body) ELSE body
            ds == digitPrefix(unsigned)
        IN  IF ds = <<>> THEN NotANumber
            ELSE Parsed(IF negative THEN 0 - digitsValue(ds) ELSE digitsValue(ds))
    ELSE NotANumber

\* row[column]: undefined unless the column is a string naming a key of the row
Cell(row, column) ==
    IF column.t = "string" /\ column.v \in DOMAIN row THEN row[column.v] ELSE Undefined

\* parseFloat(row[column]) || 0
NumericCell(row, column) ==
    LET p == parseFloat(Cell(row, column)) IN IF p.nan THEN 0 ELSE p.v

RECURSIVE SumOf(_)
SumOf(values) == IF values = <<>> THEN 0 ELSE Head(values) + SumOf(Tail(values))

Larger(a, b) == IF a >= b THEN a ELSE b
Smaller(a, b) == IF a <= b THEN a ELSE b

\* Math.max(...values) and Math.min(...values)
RECURSIVE MaxOf(_)
MaxOf(values) ==
    IF values = <<>> THEN Rational(-1, 0)
    ELSE IF Len(values) = 1 THEN Rational(values[1], 1)
    ELSE Rational(Larger(Head(values), MaxOf(Tail(values)).num), 1)

RECURSIVE MinOf(_)
MinOf(values) ==
    IF values = <<>> THEN Rational(1, 0)
    ELSE IF Len(values) = 1 THEN Rational(values[1], 1)
    ELSE Rational(Smaller(Head(values), MinOf(Tail(values)).num), 1)

\* Calculator.formatValue: the literal "0" for a value that is not finite,
\* else the rendering chosen by the format; the text Intl.NumberFormat,
\* toFixed and toLocaleString produce is kept as the style and its argument
formatValue(value, format) ==
    IF ~IsFinite(value) THEN Return([style |-> "literal 0", of |-> value])
    ELSE IF format.t \in {"undefined", "null"} THEN
        Return([style |-> (IF value.num >= 1000000 * value.den THEN "M"
                           ELSE IF value.num >= 1000 * value.den THEN "K" ELSE "locale"),
                of |-> value])
    ELSE IF format.t # "string" THEN Throw("TypeError")
    ELSE LET f == toLowerCase(format.v)
         IN  IF f = <<"c","u","r","r","e","n","c","y">> THEN Return([style |-> "currency", of |-> value])
             ELSE IF f = <<"p","e","r","c","e","n","t">> THEN Return([style |-> "percent", of |-> value])
             ELSE Return([style |-> (IF value.num >= 1000000 * value.den THEN "M"
                                     ELSE IF value.num >= 1000 * value.den THEN "K"
                                     ELSE "locale"),
                          of |-> value])

KnownCalculations == {<<"s","u","m">>, <<"a","v","g">>, <<"a","v","e","r","a","g","e">>, <<"c","o","u","n","t">>, <<"m","a","x">>, <<"m","i","n">>}

\* Calculator.calculateSingleKPI: a KPI result, null for an unknown
\* calculation, or a TypeError
calculateSingleKPI(data, definition) ==
    IF definition.calculation.t # "string" THEN Throw("TypeError")
    ELSE
        LET calc == toLowerCase(definition.calculation.v)
            numbers == [i \in DOMAIN data |-> NumericCell(data[i], definition.column)]
            present == {i \in DOMAIN data :
                          Cell(data[i], definition.column) \notin {Null, Undefined, Str(<<>>)}}
            value ==
                IF calc = <<"s","u","m">> THEN Rational(SumOf(numbers), 1)
                ELSE IF calc \in {<<"a","v","g">>, <<"a","v","e","r","a","g","e">>} THEN
                    (IF Len(data) > 0 THEN Rational(SumOf(numbers), Len(data)) ELSE Rational(0, 1))
                ELSE IF calc = <<"c","o","u","n","t">> THEN
                    (IF definition.column = Str(star) THEN Rational(Len(data), 1)
                     ELSE Rational(Cardinality(present), 1))
                ELSE IF calc = <<"m","a","x">> THEN MaxOf(numbers)
                ELSE MinOf(numbers)
            formatted == formatValue(value, definition.format)
        IN  IF calc \notin KnownCalculations THEN Return(Null)
            ELSE IF formatted.threw THEN formatted
            ELSE Return([name |-> definition.name,
                         value |-> value,
                         formattedValue |-> formatted.value,
                         calculation |-> definition.calculation,
                         column |-> definition.column,
                         format |-> definition.format])

\* calculateKPIs without the try of line 9: the first definition that
\* raises ends the list
RECURSIVE calculateKPIs_Unguarded(_, _, _)
calculateKPIs_Unguarded(data, schema, kpiDefinitions) ==
    IF kpiDefinitions = <<>> THEN <<>>
    ELSE LET kpi == calculateSingleKPI(data, Head(kpiDefinitions))
         IN  IF kpi.threw THEN <<>>
             ELSE (IF kpi.value = Null THEN <<>> ELSE <<kpi.value>>)
                      \o calculateKPIs_Unguarded(data, schema, Tail(kpiDefinitions))

\* Calculator.calculateKPIs: a definition that gives null or raises is skipped
RECURSIVE calculateKPIs(_, _, _)
calculateKPIs(data, schema, kpiDefinitions) ==
    IF kpiDefinitions = <<>> THEN <<>>
    ELSE LET kpi == calculateSingleKPI(data, Head(kpiDefinitions))
             rest == calculateKPIs(data, schema, Tail(kpiDefinitions))
         IN  IF kpi.threw \/ kpi.value = Null THEN rest ELSE <<kpi.value>> \o rest

\* row sets over which KPIs are computed
Row(r, v) == (region :> r) @@ (revenue :> v)

DataSets ==
    { <<>>,
      <<Row(Str(<<"E","a","s","t">>), Num(100)), Row(Str(<<"W","e","s","t">>), Str(<<"3","0","0">>)), Row(Null, Str(<<"n","/","a">>))>> }

-----------------------------------------------------------------------------
(* Validation harness: validateSuggestions and parseAIResponse applied to
   every candidate and schema *)

Pending == [via |-> "none"]

Wrappers == {"fenced", "bare", "prose"}

\* the service before any call, the harnesses before any application
ServiceAtRest ==
    /\ apiKey = FALSE
    /\ cache = <<>>
    /\ calls = <<>>
    /\ hostFault = "none"
    /\ sessions = {}

ValidationAtRest ==
    /\ vSchema = SchemaOf(<<>>)
    /\ vCandidate = Undefined
    /\ vOutcome = Pending

CalculatorAtRest ==
    /\ rows = <<>>
    /\ inferred = Pending
    /\ cDefinition = Undefined
    /\ cOutcome = Pending
    /\ fFilters = Undefined
    /\ fLimit = Undefined
    /\ fOutcome = Pending

\* the Dashboard component as mounted: the useState initial values and no
\* request issued
DashboardAtRest ==
    /\ dashboardData = Null
    /\ activeFiltersState = Obj(<<>>)
    /\ chartsUpdating = FALSE
    /\ dataLimitState = Null
    /\ performanceMode = FALSE
    /\ requests = <<>>

\* the routes before any custom chart request
RoutesAtRest ==
    /\ customCharts = <<>>
    /\ now = 0
    /\ res = Pending

ValidateInit ==
    /\ DashboardAtRest
    /\ RoutesAtRest
    /\ vSchema \in Schemas
    /\ vCandidate = Undefined
    /\ vOutcome = Pending
    /\ ServiceAtRest
    /\ CalculatorAtRest

CallValidate ==
    /\ vOutcome = Pending
    /\ \E c \in Candidates :
          /\ vCandidate' = c
          /\ vOutcome' = [via |-> "validateSuggestions", out |-> validateSuggestions(c, vSchema)]
    /\ UNCHANGED <<dashboardVars, routeVars, vSchema, serviceVars, calcVars>>

CallParse ==
    /\ vOutcome = Pending
    /\ \E c \in Candidates, w \in Wrappers :
          /\ vCandidate' = c
          /\ vOutcome' = [via |-> "parseAIResponse",
                           out |-> Return(parseAIResponse(Content(w, c), vSchema))]
    /\ UNCHANGED <<dashboardVars, routeVars, vSchema, serviceVars, calcVars>>
ValidateNext == CallValidate \/ CallParse

ValidateSpec == ValidateInit /\ [][ValidateNext]_vars
-----------------------------------------------------------------------------
(* AIService.getAISuggestions *)

\* What the external collaborator does with one request: fetch rejects, the
\* status is not 2xx, the body is no JSON, the body has no choices array,
\* the first choice has no content, or there is content
FailureKinds == {"rejected", "notOk", "bodyNotJson", "noChoices", "noContent"}

Failure(kind) == [kind |-> kind]
Answer(content) == [kind |-> "content", content |-> content]

getAISuggestions(schema, hasKey, response) ==
    IF ~hasKey THEN Throw("AI API key not configured")
    ELSE IF response.kind = "rejected" THEN Throw("fetch failed")
    ELSE IF response.kind = "notOk" THEN Throw("AI API error")
    ELSE IF response.kind = "bodyNotJson" THEN Throw("SyntaxError")
    ELSE IF response.kind = "noChoices" THEN Throw("TypeError")
    ELSE IF response.kind = "noContent" THEN Throw("No AI response received")
    ELSE Return(parseAIResponse(response.content, schema))

-----------------------------------------------------------------------------
(* AIService.getSuggestions and the hosts of api.js *)

\* the schemas of the sessions that ask for suggestions: two that differ in
\* their second column and have the same first 15 characters of name:type
\* pairs
CallSchemas ==
    { SchemaOf(<<RegionCol, RevenueCol>>),
      SchemaOf(<<RegionCol, RateCol>>) }

CacheKeys == [schema \in Schemas |-> generateCacheKey(schema)]

CandidateA ==
    Obj([kpis |-> Arr(<<Kpi(Str(<<"T","o","t","a","l">>), Str(revenue), Undefined, Undefined)>>),
         charts |-> Arr(<<Chart(Str(<<"A">>), Str(<<"b","a","r">>), Arr(<<Str(revenue)>>),
                                Arr(<<Str(region)>>))>>),
         insights |-> Arr(<<Str(<<"n","o","t","e">>)>>)])

CandidateB ==
    Obj([kpis |-> Arr(<<Kpi(Str(<<"R","e","c","o","r","d","s">>), Str(star), Str(<<"m","e","d","i","a","n">>), Str(<<"h","e","x">>))>>),
         charts |-> Arr(<<Chart(Str(<<"B">>), Str(<<"r","a","d","a","r">>),
                                Arr(<<Str(ghost), Str(rate), Str(revenue)>>),
                                Arr(<<Str(day), Str(ghost), Str(region)>>))>>),
         insights |-> Undefined])

Responses ==
    {Failure(k) : k \in FailureKinds}
    \cup { Answer(Content("bare", Malformed)),
           Answer(Content("bare", Null)),
           Answer(Content("prose", Num(7))),
           Answer(Content("fenced", CandidateA)),
           Answer(Content("prose", CandidateB)) }

Calls == 1..MaxCalls
SessionIds == {"session_1"}

Idle == [pc |-> "idle"]

Init ==
    /\ DashboardAtRest
    /\ RoutesAtRest
    /\ apiKey \in BOOLEAN
    /\ cache = <<>>
    /\ calls = [c \in Calls |-> Idle]
    /\ hostFault = "none"
    /\ sessions = {}
    /\ vSchema = SchemaOf(<<>>)
    /\ vCandidate = Undefined
    /\ vOutcome = Pending
    /\ CalculatorAtRest

\* cache.set(key, value)
MapSet(map, key, value) ==
    [k \in DOMAIN map \cup {key} |-> IF k = key THEN value ELSE map[k]]

\* getSuggestions up to its first suspension: the cache check, and on a miss
\* the call of getAISuggestions, which sends the request when a key is set
GetSuggestionsStart(c) ==
    /\ calls[c].pc = "idle"
    /\ \A d \in 1..(c - 1) : calls[d].pc # "idle"   \* calls are numbered as they start
    /\ \E schema \in CallSchemas :
          LET cacheKey == CacheKeys[schema]
          IN  IF cacheKey \in DOMAIN cache
              THEN calls' = [calls EXCEPT ![c] =
                       [pc |-> "returned", schema |-> schema, cacheKey |-> cacheKey,
                        hit |-> TRUE, requests |-> 0, failed |-> FALSE,
                        result |-> cache[cacheKey]]]
              ELSE calls' = [calls EXCEPT ![c] =
                       [pc |-> "awaiting", schema |-> schema, cacheKey |-> cacheKey,
                        hit |-> FALSE, requests |-> IF apiKey THEN 1 ELSE 0]]
    /\ UNCHANGED <<dashboardVars, routeVars, apiKey, cache, hostFault, sessions, harnessVars, calcVars>>

\* the request fails: every outcome but a content whose JSON is an object
\* that validateSuggestions takes without raising
RequestFailed(hasKey, response) ==
    \/ ~hasKey
    \/ response.kind \in FailureKinds
    \/ JSONparse(ExtractJson(response.content)).threw
    \/ ValidateThrows(JSONparse(ExtractJson(response.content)).value)

\* the inner try with a catch that gives an empty set in place of the fallback
TryAISuggestions_EmptyOnError(schema, got) ==
    IF got.threw THEN Return([kpis |-> <<>>, charts |-> <<>>, insights |-> Arr(<<>>)]) ELSE got

\* the inner try of lines 33-41: what getAISuggestions gave, or the
\* fallback when it raised
TryAISuggestions(schema, got) ==
    IF got.threw THEN Return(FallbackSuggestions[schema]) ELSE got

\* getSuggestions from the resumption to its return: the inner try,
\* cache.set and return; an error that escapes the inner try reaches the
\* catch of line 48, which returns the fallback and stores nothing
GetSuggestionsResume(c) ==
    /\ calls[c].pc = "awaiting"
    /\ \E response \in Responses :
          LET schema == calls[c].schema
              tried == TryAISuggestions(schema, getAISuggestions(schema, apiKey, response))
              suggestions == IF tried.threw THEN FallbackSuggestions[schema] ELSE tried.value
          IN  /\ cache' = IF tried.threw THEN cache
                          ELSE MapSet(cache, calls[c].cacheKey, suggestions)
              /\ calls' = [calls EXCEPT ![c] =
                     [pc |-> "returned", schema |-> schema, cacheKey |-> calls[c].cacheKey,
                      hit |-> FALSE, requests |-> calls[c].requests,
                      failed |-> RequestFailed(apiKey, response),
                      result |-> suggestions]]
    /\ UNCHANGED <<dashboardVars, routeVars, apiKey, hostFault, sessions, harnessVars, calcVars>>

\* the methods of the Calculator class
CalculatorMethods ==
    { "calculateKPIs", "calculateSingleKPI", "formatValue", "generateChartConfigs",
      "prepareChartData", "groupByDimension", "sortChartData", "generateChartOption",
      "applyFilters", "getFilterOptions", "formatColumnName", "calculateStandardDeviation",
      "calculateMedian", "calculatePercentile", "calculateGrowthRate", "assessDataQuality",
      "generateSingleChartConfig", "prepareCustomChartData", "sortCustomChartData",
      "generateCustomChartOption", "getColorForMeasure", "analyzeChartCombination",
      "isTimeBasedDimension", "validateCustomChartConfig", "generateChartMetadata",
      "inferDimensionType", "calculateChartComplexity" }

\* calculator.clearCache(): calling a property that is no function raises
CalculatorClearCache == IF "clearCache" \in CalculatorMethods THEN "none" ELSE "TypeError"

\* POST /upload stores a session
Upload(id) ==
    /\ id \notin sessions
    /\ sessions' = sessions \cup {id}
    /\ UNCHANGED <<dashboardVars, routeVars, apiKey, cache, calls, hostFault, harnessVars, calcVars>>

\* the setInterval callback: drop the sessions uploaded more than 24 hours
\* ago (whichever they are by now), then calculator.clearCache()
HourlyCleanup ==
    /\ \E expired \in SUBSET sessions : sessions' = sessions \ expired
    /\ hostFault' = CalculatorClearCache
    /\ UNCHANGED <<dashboardVars, routeVars, apiKey, cache, calls, harnessVars, calcVars>>

\* DELETE /sessions: sessions.clear(), then calculator.clearCache()
DeleteSessions ==
    /\ sessions' = {}
    /\ hostFault' = CalculatorClearCache
    /\ UNCHANGED <<dashboardVars, routeVars, apiKey, cache, calls, harnessVars, calcVars>>

Next ==
    \/ \E c \in Calls : GetSuggestionsStart(c)
    \/ \E c \in Calls : GetSuggestionsResume(c)
    \/ \E id \in SessionIds : Upload(id)
    \/ HourlyCleanup
    \/ DeleteSessions

Spec == Init /\ [][Next]_vars
-----------------------------------------------------------------------------
(* Properties of getSuggestions, the cache and its hosts *)

IsSuggestionSet(s) == {"kpis", "charts", "insights"} \subseteq DOMAIN s

\* C1: getSuggestions never rejects: every call that has left its await has
\* returned a suggestion set with kpis, charts and insights, and when the
\* external request failed (no API key, fetch rejected, status not 2xx,
\* body without JSON, choices or content, text that is no JSON or that
\* validateSuggestions cannot read) that set is getFallbackSuggestions(schema)
C1_NeverRejectsFallbackOnFailure ==
    \A c \in Calls :
        /\ calls[c].pc \in {"idle", "awaiting", "returned"}
        /\ calls[c].pc = "returned" =>
              /\ IsSuggestionSet(calls[c].result)
              /\ calls[c].failed => calls[c].result = getFallbackSuggestions(calls[c].schema)

\* a call whose request failed has returned, with a key configured
C1_Witness ==
    \E c \in Calls :
        /\ calls[c].pc = "returned"
        /\ calls[c].failed
        /\ calls[c].requests = 1
        /\ calls[c].result = getFallbackSuggestions(calls[c].schema)

\* C2: once a call for a schema has returned, every call that starts later
\* with the same fingerprint returns the result of that call without an
\* external request (the cache is never cleared in between: see C4)
C2_LaterCallsReturnStoredResult ==
    [][\A c, d \in Calls :
          (/\ calls[c].pc = "returned"
           /\ calls[d].pc = "idle"
           /\ calls'[d].pc # "idle"
           /\ calls'[d].cacheKey = calls[c].cacheKey)
          => (/\ calls'[d].pc = "returned"
              /\ calls'[d].requests = 0
              /\ calls'[d].result = calls[c].result)]_vars

\* C3: the values that concurrent calls write to the cache under one
\* fingerprint are equal, whichever write lands last
C3_ConcurrentWritesEquivalent ==
    \A c, d \in Calls :
        (/\ calls[c].pc = "returned" /\ ~calls[c].hit
         /\ calls[d].pc = "returned" /\ ~calls[d].hit
         /\ calls[c].cacheKey = calls[d].cacheKey)
        => calls[c].result = calls[d].result

\* C4: a run of a cache-maintenance host (the hourly timer, DELETE
\* /sessions) completes without error and leaves the suggestion cache empty
C4_HostsClearTheCache ==
    [][(HourlyCleanup \/ DeleteSessions) => (hostFault' = "none" /\ DOMAIN cache' = {})]_vars
-----------------------------------------------------------------------------
(* Properties of validateSuggestions and parseAIResponse *)

Validated == vOutcome.via = "validateSuggestions" /\ ~vOutcome.out.threw
Result == vOutcome.out.value
NonFallback == Validated /\ Result # getFallbackSuggestions(vSchema)

\* the elements of a set of integers in increasing order
Ranked(S) ==
    [j \in 1..Cardinality(S) |-> CHOOSE x \in S : Cardinality({y \in S : y < x}) = j - 1]

AcceptedKpiIndexes ==
    {i \in DOMAIN KpiEntries(vCandidate) : KpiAccepted(KpiEntries(vCandidate)[i], vSchema)}
AcceptedChartIndexes ==
    {i \in DOMAIN ChartEntries(vCandidate) : ChartAccepted(ChartEntries(vCandidate)[i], vSchema)}

\* C5: validateSuggestions is all-or-nothing: when no KPI or no chart of the
\* candidate is accepted the result is getFallbackSuggestions(schema), kpis,
\* charts and insights; otherwise its kpis and charts are the accepted
\* entries of the candidate, one each, in the candidate's order
C5_AllOrNothing ==
    Validated =>
        IF AcceptedKpiIndexes = {} \/ AcceptedChartIndexes = {}
        THEN Result = getFallbackSuggestions(vSchema)
        ELSE /\ Len(Result.kpis) = Cardinality(AcceptedKpiIndexes)
             /\ Len(Result.charts) = Cardinality(AcceptedChartIndexes)
             /\ \A j \in DOMAIN Result.kpis :
                   LET e == KpiEntries(vCandidate)[Ranked(AcceptedKpiIndexes)[j]]
                   IN  /\ Result.kpis[j].name = Get(e, "name")
                       /\ Result.kpis[j].column = Get(e, "column")
             /\ \A j \in DOMAIN Result.charts :
                   LET e == ChartEntries(vCandidate)[Ranked(AcceptedChartIndexes)[j]]
                   IN  /\ Result.charts[j].title = Get(e, "title")
                       /\ Result.charts[j].type = Get(e, "type")

\* two different accepted KPIs come back in the candidate's order
C5_Witness ==
    /\ NonFallback
    /\ Len(Result.kpis) = 2
    /\ Result.kpis[1].name # Result.kpis[2].name
    /\ Len(Result.charts) = 1

\* C6: for every candidate and every schema, one without columns included,
\* validateSuggestions never returns an empty KPI list with an empty chart list
C6_NeverBothEmpty ==
    (vOutcome.via # "none" /\ ~vOutcome.out.threw)
        => ~(Result.kpis = <<>> /\ Result.charts = <<>>)

\* C7: validation never throws and returns a kpis list, a charts list and an
\* insights list for every candidate, here through parseAIResponse, which
\* catches what validateSuggestions raises
C7_AlwaysListsNeverThrows ==
    vOutcome.via = "parseAIResponse" =>
        /\ ~vOutcome.out.threw
        /\ IsSuggestionSet(Result)
        /\ IsArray(Result.insights)

RecognizedChartTypes == {Str(<<"b","a","r">>), Str(<<"l","i","n","e">>), Str(<<"p","i","e">>), Str(<<"a","r","e","a">>), Str(<<"s","c","a","t","t","e","r">>)}

\* the names of a candidate list that the schema knows, in candidate order
KnownNames(list, names) ==
    LET idx == {i \in DOMAIN list : list[i].t = "string" /\ list[i].v \in names}
    IN  [j \in 1..Cardinality(idx) |-> list[Ranked(idx)[j]]]

\* C8: every chart of a validated, non-fallback result comes from a candidate
\* chart with a title and a type among bar, line, pie, area, scatter, and
\* lists exactly the candidate's measure and dimension names that the schema
\* has, at least one of each, in candidate order
C8_ChartsRecognizedAndFiltered ==
    NonFallback =>
        \A j \in DOMAIN Result.charts :
            \E i \in DOMAIN ChartEntries(vCandidate) :
                LET e == ChartEntries(vCandidate)[i]
                IN  /\ Truthy(Get(e, "title"))
                    /\ Get(e, "type") \in RecognizedChartTypes
                    /\ Result.charts[j].title = Get(e, "title")
                    /\ Result.charts[j].type = Get(e, "type")
                    /\ Result.charts[j].measures =
                          KnownNames(Get(e, "measures").v, MeasureNames(vSchema))
                    /\ Result.charts[j].dimensions =
                          KnownNames(Get(e, "dimensions").v, DimensionNames(vSchema))
                    /\ Result.charts[j].measures # <<>>
                    /\ Result.charts[j].dimensions # <<>>

NonEmptyString(x) == x.t = "string" /\ x.v # <<>>

\* the KPI the result holds for a candidate KPI: its name and column, sum and
\* number where it names no calculation and no format
ExpectedKpi(e) ==
    [name |-> Get(e, "name"),
     calculation |-> IF Get(e, "calculation") = Undefined THEN Str(<<"s","u","m">>)
                     ELSE Get(e, "calculation"),
     column |-> Get(e, "column"),
     format |-> IF Get(e, "format") = Undefined THEN Str(<<"n","u","m","b","e","r">>) ELSE Get(e, "format")]

KpiAppears(e) == \E j \in DOMAIN Result.kpis : Result.kpis[j] = ExpectedKpi(e)

\* C9 as stated: a candidate KPI is in a validated, non-fallback result if and
\* only if its name is non-empty and its column is "*" or a measure's name
C9_AcceptedIffNamedAndMeasure ==
    NonFallback =>
        \A i \in DOMAIN KpiEntries(vCandidate) :
            LET e == KpiEntries(vCandidate)[i]
            IN  KpiAppears(e) <=>
                    /\ NonEmptyString(Get(e, "name"))
                    /\ (Get(e, "column") = Str(star) \/ IsMeasureName(Get(e, "column"), vSchema))

\* C9 amended: a candidate KPI is in a validated, non-fallback result if and
\* only if its name is non-empty and its column is non-empty and is "*" or a
\* measure's name; the result holds nothing else, and each KPI keeps name
\* and column and takes sum and number where the candidate names none
C9_AcceptedIffNamedAndNonEmptyMeasure ==
    NonFallback =>
        /\ \A i \in DOMAIN KpiEntries(vCandidate) :
              LET e == KpiEntries(vCandidate)[i]
              IN  KpiAppears(e) <=>
                      /\ NonEmptyString(Get(e, "name"))
                      /\ NonEmptyString(Get(e, "column"))
                      /\ (Get(e, "column") = Str(star)
                            \/ IsMeasureName(Get(e, "column"), vSchema))
        /\ \A j \in DOMAIN Result.kpis :
              \E i \in DOMAIN KpiEntries(vCandidate) :
                  Result.kpis[j] = ExpectedKpi(KpiEntries(vCandidate)[i])

\* a KPI without calculation and format is accepted with the defaults next to
\* one that names a measure whose name is empty and is left out
C9_Witness ==
    /\ NonFallback
    /\ blank \in MeasureNames(vSchema)
    /\ \E i \in DOMAIN KpiEntries(vCandidate) :
          /\ Get(KpiEntries(vCandidate)[i], "column") = Str(blank)
          /\ ~KpiAppears(KpiEntries(vCandidate)[i])
    /\ \E i \in DOMAIN KpiEntries(vCandidate) :
          /\ Get(KpiEntries(vCandidate)[i], "calculation") = Undefined
          /\ KpiAppears(KpiEntries(vCandidate)[i])
          /\ ExpectedKpi(KpiEntries(vCandidate)[i]).calculation = Str(<<"s","u","m">>)

SpecCalculations == {Str(<<"s","u","m">>), Str(<<"a","v","g">>), Str(<<"c","o","u","n","t">>), Str(<<"m","a","x">>), Str(<<"m","i","n">>)}
SpecFormats == {Str(<<"c","u","r","r","e","n","c","y">>), Str(<<"p","e","r","c","e","n","t">>), Str(<<"n","u","m","b","e","r">>)}

\* C10: every KPI definition that validation returns has a calculation among
\* sum, avg, count, max, min and a format among currency, percent, number,
\* and calculateKPIs gives one result for each definition
C10_KpiDefinitionsComputable ==
    (vOutcome.via # "none" /\ ~vOutcome.out.threw) =>
        /\ \A j \in DOMAIN Result.kpis :
              /\ Result.kpis[j].calculation \in SpecCalculations
              /\ Result.kpis[j].format \in SpecFormats
        /\ \A data \in DataSets :
              Len(calculateKPIs(data, vSchema, Result.kpis)) = Len(Result.kpis)
-----------------------------------------------------------------------------
(* DataProcessor.generateSchema and inferDataType *)

MaxRows == 6

\* the headers of the parsed file: parseExcel and papaparse build every row
\* by inserting its keys in header order, which Object.keys gives back
Headers == <<region, revenue, units>>

ObjectKeys(row) == SelectSeq(Headers, LAMBDA h : h \in DOMAIN row)

\* value.match(/^\d{4}-\d{2}-\d{2}$/)
IsDateString(s) ==
    /\ Len(s) = 10
    /\ s[5] = "-" /\ s[8] = "-"
    /\ \A i \in {1, 2, 3, 4, 6, 7, 9, 10} : s[i] \in Range(Digits)

\* numberCount / total > 0.8 in IEEE doubles: for the counts of the model the
\* quotient rounds to the double of the literal 0.8 exactly when it is 4/5
\* the threshold test with >= for >
MoreThanEightyPercent_Inclusive(count, total) == 5 * count >= 4 * total

MoreThanEightyPercent(count, total) == 5 * count > 4 * total

inferDataType(values) ==
    LET numberCount == Cardinality({i \in DOMAIN values : values[i].t = "number"})
        dateCount == Cardinality({i \in DOMAIN values :
                                     values[i].t = "string" /\ IsDateString(values[i].v)})
        total == Len(values)
    IN  IF total = 0 THEN "string"
        ELSE IF MoreThanEightyPercent(numberCount, total) THEN "number"
        ELSE IF MoreThanEightyPercent(dateCount, total) THEN "date"
        ELSE "string"

\* data.map(row => row[column]).filter(val => val !== null && val !== undefined)
ColumnValues(data, column) ==
    SelectSeq([i \in DOMAIN data |-> Cell(data[i], Str(column))],
              LAMBDA val : val \notin {Null, Undefined})

\* generateSchema without the test of lines 148-150
generateSchema_Unguarded(data) ==
    IF ~Truthy(data) \/ Len(data.v) = 0
    THEN Return([columns |-> <<>>, measures |-> <<>>, dimensions |-> <<>>])
    ELSE LET columns == ObjectKeys(data.v[1])
             columnInfo(column) ==
                 LET values == ColumnValues(data.v, column)
                 IN  Column(column, inferDataType(values), Cardinality(Range(values)))
         IN  Return(SchemaOf([i \in DOMAIN columns |-> columnInfo(columns[i])]))

\* DataProcessor.generateSchema: data is a JavaScript value, an array of rows
\* or nothing
generateSchema(data) ==
    IF ~Truthy(data) \/ Len(data.v) = 0 THEN Throw("No data to analyze")
    ELSE LET columns == ObjectKeys(data.v[1])
             columnInfo(column) ==
                 LET values == ColumnValues(data.v, column)
                 IN  Column(column, inferDataType(values), Cardinality(Range(values)))
         IN  Return(SchemaOf([i \in DOMAIN columns |-> columnInfo(columns[i])]))

-----------------------------------------------------------------------------
(* Row sets for generateSchema: a revenue column with every mix of values,
   next to a region column of labels and a units column of distinct numbers *)

Repeat(v, n) == [i \in 1..n |-> v]
Reverse(seq) == [i \in DOMAIN seq |-> seq[Len(seq) + 1 - i]]

\* the cells of the revenue column: distinct numbers, one number again,
\* numbers typed as text, dates, labels, nulls and rows without the key
RevenueCells(mix) ==
    [i \in 1..mix.distinct |-> Num(i)]
        \o Repeat(Num(1), mix.repeated)
        \o Repeat(Str(<<"7">>), mix.numeric)
        \o Repeat(Str(<<"2","0","2","4","-","0","1","-","0","5">>), mix.dates)
        \o Repeat(Str(<<"n","/","a">>), mix.labels)
        \o Repeat(Null, mix.nulls)
        \o Repeat(Undefined, mix.missing)

Labels == <<Str(<<"E","a","s","t">>), Str(<<"W","e","s","t">>), Str(<<"N","o","r","t","h">>)>>

InferRow(cell, i, layout) ==
    LET keyed == IF cell = Undefined THEN <<>> ELSE (revenue :> cell)
    IN  CASE layout = "none" -> <<>>
          [] layout = "one" -> keyed
          [] OTHER -> keyed @@ (region :> Labels[(i % 3) + 1]) @@ (units :> Num(i))

InferRows(mix, layout, reversed) ==
    LET cells == IF reversed THEN Reverse(RevenueCells(mix)) ELSE RevenueCells(mix)
    IN  Arr([i \in DOMAIN cells |-> InferRow(cells[i], i, layout)])

Layouts == {"none", "one", "all"}

InferInit ==
    /\ DashboardAtRest
    /\ RoutesAtRest
    /\ \/ rows \in {Null, Undefined}
       \/ \E distinct \in 0..MaxRows :
          \E repeated \in 0..(MaxRows - distinct) :
          \E numeric \in 0..(MaxRows - distinct - repeated) :
          \E dates \in 0..(MaxRows - distinct - repeated - numeric) :
          \E labels \in 0..(MaxRows - distinct - repeated - numeric - dates) :
          \E nulls \in 0..(MaxRows - distinct - repeated - numeric - dates - labels) :
          \E missing \in 0..(MaxRows - distinct - repeated - numeric - dates - labels - nulls) :
          \E layout \in Layouts, reversed \in BOOLEAN :
              rows = InferRows([distinct |-> distinct, repeated |-> repeated,
                                numeric |-> numeric, dates |-> dates, labels |-> labels,
                                nulls |-> nulls, missing |-> missing], layout, reversed)
    /\ inferred = Pending
    /\ cDefinition = Undefined
    /\ cOutcome = Pending
    /\ fFilters = Undefined
    /\ fLimit = Undefined
    /\ fOutcome = Pending
    /\ ServiceAtRest
    /\ ValidationAtRest

CallGenerateSchema ==
    /\ inferred = Pending
    /\ inferred' = [via |-> "generateSchema", out |-> generateSchema(rows)]
    /\ UNCHANGED <<dashboardVars, routeVars, rows, cDefinition, cOutcome, fFilters, fLimit, fOutcome,
                   serviceVars, harnessVars>>

InferNext == CallGenerateSchema

InferSpec == InferInit /\ [][InferNext]_vars
-----------------------------------------------------------------------------
(* Properties of generateSchema *)

Inferred == inferred.via = "generateSchema" /\ ~inferred.out.threw
InferredSchema == inferred.out.value

\* the non-null cells of a column of rows, as a set
DistinctNonNull(column) ==
    {Cell(rows.v[i], Str(column)) : i \in DOMAIN rows.v} \ {Null, Undefined}

NamesOf(infos) == [i \in DOMAIN infos |-> infos[i].name]

\* C11: for a non-empty row set every column of the schema is in exactly one
\* of measures and dimensions and nothing else is in them; it is a measure if
\* and only if its type is number and it has more than 5 distinct non-null
\* values (exactly 5 gives a dimension)
C11_MeasuresDimensionsPartition ==
    Inferred =>
        LET schema == InferredSchema
            inMeasures(c) == \E j \in DOMAIN schema.measures : schema.measures[j] = c
            inDimensions(c) == \E j \in DOMAIN schema.dimensions : schema.dimensions[j] = c
        IN  /\ NamesOf(schema.columns) = ObjectKeys(rows.v[1])
            /\ Len(schema.measures) + Len(schema.dimensions) = Len(schema.columns)
            /\ Range(schema.measures) \subseteq Range(schema.columns)
            /\ Range(schema.dimensions) \subseteq Range(schema.columns)
            /\ \A i \in DOMAIN schema.columns :
                  LET c == schema.columns[i]
                  IN  /\ inMeasures(c) # inDimensions(c)
                      /\ inMeasures(c) <=>
                            (c.type = "number" /\ Cardinality(DistinctNonNull(c.name)) > 5)

\* a number column with exactly 5 distinct values is a dimension next to a
\* number column with 6 that is a measure
C11_Witness ==
    /\ Inferred
    /\ \E i \in DOMAIN InferredSchema.dimensions :
          /\ InferredSchema.dimensions[i].name = revenue
          /\ InferredSchema.dimensions[i].type = "number"
          /\ Cardinality(DistinctNonNull(revenue)) = 5
    /\ \E i \in DOMAIN InferredSchema.measures : InferredSchema.measures[i].name = units

\* a cell that parses as a number: a number, or text that is a numeral
ParsesAsNumber(x) ==
    \/ x.t = "number"
    \/ x.t = "string" /\ x.v # <<>> /\ \A i \in DOMAIN x.v : x.v[i] \in Range(Digits)

MatchesDate(x) == x.t = "string" /\ IsDateString(x.v)

IsNumberTyped(x) == x.t = "number"

\* the type the 80% rules give a column, a numeral held as text counted as
\* a number or not
TypeByShare(column, textCounts) ==
    LET cells == ColumnValues(rows.v, column)
        numbers == Cardinality({i \in DOMAIN cells :
                       IF textCounts THEN ParsesAsNumber(cells[i])
                       ELSE IsNumberTyped(cells[i])})
        dates == Cardinality({i \in DOMAIN cells : MatchesDate(cells[i])})
    IN  IF 5 * numbers > 4 * Len(cells) THEN "number"
        ELSE IF 5 * dates > 4 * Len(cells) THEN "date"
        ELSE "string"

C13_FailsIffEmpty ==
    inferred.via = "generateSchema" =>
        /\ inferred.out.threw <=> (rows \in {Null, Undefined} \/ Len(rows.v) = 0)
        /\ ~inferred.out.threw =>
              {"columns", "measures", "dimensions"} \subseteq DOMAIN InferredSchema

\* the empty row set was given and the call raised
C13_Witness ==
    /\ inferred.via = "generateSchema"
    /\ rows = Arr(<<>>)
    /\ inferred.out.threw
-----------------------------------------------------------------------------
(* JavaScript objects with ordered keys, String, localeCompare, sort *)

\* String(x), also the property key a value is turned into
String(x) ==
    CASE x.t = "string" -> x.v
      [] x.t = "number" -> IF x.v < 0 THEN <<"-">> \o numberToString(0 - x.v)
                           ELSE numberToString(x.v)
      [] x.t = "boolean" -> IF x.v THEN <<"t","r","u","e">> ELSE <<"f","a","l","s","e">>
      [] x.t = "null" -> <<"n","u","l","l">>
      [] OTHER -> <<"u","n","d","e","f","i","n","e","d">>

\* an object as the sequence of its <<key, value>> entries in insertion order
SetProp(o, k, v) ==
    IF \E i \in DOMAIN o : o[i][1] = k
    THEN [o EXCEPT ![CHOOSE i \in DOMAIN o : o[i][1] = k] = <<k, v>>]
    ELSE Append(o, <<k, v>>)

HasProp(o, k) == \E i \in DOMAIN o : o[i][1] = k
GetProp(o, k) == IF HasProp(o, k) THEN o[CHOOSE i \in DOMAIN o : o[i][1] = k][2] ELSE Undefined

\* a key that is an array index: the decimal text of a non-negative integer
IsIndexKey(k) ==
    /\ k # <<>>
    /\ \A i \in DOMAIN k : k[i] \in Range(Digits)
    /\ (Len(k) > 1 => k[1] # "0")

\* Object.keys(o): the index keys in increasing numeric order, then the
\* other keys in insertion order
OwnKeys(o) ==
    LET indexes == {digitsValue(o[i][1]) : i \in {j \in DOMAIN o : IsIndexKey(o[j][1])}}
        ascending == [j \in 1..Cardinality(indexes) |->
                         numberToString(CHOOSE x \in indexes :
                                            Cardinality({y \in indexes : y < x}) = j - 1)]
        others == SelectSeq([i \in DOMAIN o |-> o[i][1]], LAMBDA k : ~IsIndexKey(k))
    IN  ascending \o others

\* the collation of String.prototype.localeCompare (ICU root) on the
\* characters of the model: punctuation, then digits, then letters with
\* each lower-case letter just before its capital
CollationOrder == <<" ", "_", "-", "/">> \o Digits
PrimaryWeights ==
    [c \in Range(CollationOrder) \cup Range(LowerCase) \cup Range(UpperCase) |->
        IF toLowerCaseChar(c) \in Range(LowerCase)
        THEN Len(CollationOrder) + IndexOf(LowerCase, toLowerCaseChar(c))
        ELSE IndexOf(CollationOrder, c)]
PrimaryWeight(c) == PrimaryWeights[c]

\* -1, 0 or 1 as the sequence of weights a comes before, with or after b
CompareWeights(a, b) ==
    LET shorter == IF Len(a) < Len(b) THEN Len(a) ELSE Len(b)
        differ == {i \in 1..shorter : a[i] # b[i]}
        first == CHOOSE i \in differ : \A j \in differ : i <= j
    IN  IF differ = {}
        THEN (IF Len(a) < Len(b) THEN -1 ELSE IF Len(a) > Len(b) THEN 1 ELSE 0)
        ELSE IF a[first] < b[first] THEN -1 ELSE 1

CaseWeight(c) == IF c \in Range(UpperCase) THEN 1 ELSE 0

\* String.prototype.localeCompare: the letters and digits first, the case
\* of the letters where those are equal (lower case first)
localeCompare(a, b) ==
    LET primary == CompareWeights([i \in DOMAIN a |-> PrimaryWeight(a[i])],
                                  [i \in DOMAIN b |-> PrimaryWeight(b[i])])
    IN  IF primary # 0 THEN primary
        ELSE CompareWeights([i \in DOMAIN a |-> CaseWeight(a[i])],
                            [i \in DOMAIN b |-> CaseWeight(b[i])])

\* Array.prototype.sort(compare), which is stable, with compare[i][j] the
\* result of the comparison of seq[i] with seq[j]: an element comes after
\* those it does not compare below, and after its equals that stood before it
SortBy(seq, compare) ==
    LET rank(i) == 1 + Cardinality({j \in DOMAIN seq \ {i} :
                        \/ compare[j][i] < 0
                        \/ compare[i][j] >= 0 /\ j < i})
    IN  [r \in DOMAIN seq |-> seq[CHOOSE i \in DOMAIN seq : rank(i) = r]]

-----------------------------------------------------------------------------
(* Calculator: chart data *)

Unknown == <<"U","n","k","n","o","w","n">>

\* Calculator.groupByDimension: the groups object, each row appended under
\* the key String(row[dimension] || 'Unknown')
RECURSIVE groupByDimension(_, _)
groupByDimension(data, dimension) ==
    IF data = <<>> THEN <<>>
    ELSE LET groups == groupByDimension(SubSeq(data, 1, Len(data) - 1), dimension)
             row == data[Len(data)]
             key == String(OrElse(Cell(row, dimension), Str(Unknown)))
             group == IF HasProp(groups, key) THEN GetProp(groups, key) ELSE <<>>
         IN  SetProp(groups, key, Append(group, row))

\* (x[primaryMeasure] || 0) as a number
NumberOrZero(x) == IF x.t = "number" THEN x.v ELSE 0

\* Object.keys(a).find(k => k !== primaryMeasure), then String(a[key])
DimensionText(point, primaryMeasure) ==
    LET keys == SelectSeq(OwnKeys(point), LAMBDA k : Str(k) # primaryMeasure)
    IN  IF keys = <<>> THEN String(Undefined) ELSE String(GetProp(point, keys[1]))

\* sortChartData that leaves the data points in the order of Object.keys
sortChartData_KeyOrder(data, primaryMeasure, chartType) == <<>> \o data

\* Calculator.sortChartData
sortChartData(data, primaryMeasure, chartType) ==
    LET byValue(a, b) == NumberOrZero(GetProp(b, String(primaryMeasure)))
                            - NumberOrZero(GetProp(a, String(primaryMeasure)))
        byDimension(a, b) == localeCompare(DimensionText(a, primaryMeasure),
                                           DimensionText(b, primaryMeasure))
        points == <<>> \o data
        Compared(Compare(_, _)) ==
            <<>> \o [i \in DOMAIN points |->
                       <<>> \o [j \in DOMAIN points |-> Compare(points[i], points[j])]]
    IN  IF chartType \in {Str(<<"l","i","n","e">>), Str(<<"a","r","e","a">>)}
        THEN SortBy(points, Compared(byDimension))
        ELSE SortBy(points, Compared(byValue))

\* the data point of one group: the key under the primary dimension, then
\* for each measure the sum of parseFloat(row[measure]) || 0 over the group
RECURSIVE SumMeasures(_, _, _)
SumMeasures(dataPoint, group, measures) ==
    IF measures = <<>> THEN dataPoint
    ELSE LET values == [i \in DOMAIN group |-> NumericCell(group[i], Head(measures))]
         IN  SumMeasures(SetProp(dataPoint, String(Head(measures)), Num(SumOf(values))),
                         group, Tail(measures))

\* Calculator.prepareChartData
prepareChartData(data, chartDef) ==
    IF chartDef.measures = <<>> \/ chartDef.dimensions = <<>> THEN <<>>
    ELSE LET primaryDimension == chartDef.dimensions[1]
             primaryMeasure == chartDef.measures[1]
             grouped == groupByDimension(data, primaryDimension)
             keys == OwnKeys(grouped)
             chartData == [i \in DOMAIN keys |->
                 SumMeasures(<<<<String(primaryDimension), Str(keys[i])>>>>,
                             GetProp(grouped, keys[i]), chartDef.measures)]
         IN  sortChartData(chartData, primaryMeasure, chartDef.type)

\* Calculator.generateChartConfigs: one chart for each definition whose data
\* is not empty, with the fields taken from the definition and the data
RECURSIVE generateChartConfigs(_, _, _)
generateChartConfigs(data, schema, chartDefinitions) ==
    IF chartDefinitions = <<>> THEN <<>>
    ELSE LET def == Head(chartDefinitions)
             data1 == prepareChartData(data, def)
             rest == generateChartConfigs(data, schema, Tail(chartDefinitions))
         IN  IF Len(data1) > 0
             THEN <<[title |-> def.title, type |-> def.type, data |-> data1,
                     measures |-> def.measures, dimensions |-> def.dimensions]>> \o rest
             ELSE rest

\* Calculator.generateSingleChartConfig
generateSingleChartConfig(data, schema, chartCombination) ==
    LET data1 == prepareChartData(data, chartCombination)
    IN  IF Len(data1) = 0 THEN Throw("No data available for chart generation")
        ELSE Return([title |-> chartCombination.title, type |-> chartCombination.type,
                     data |-> data1, measures |-> chartCombination.measures,
                     dimensions |-> chartCombination.dimensions])

-----------------------------------------------------------------------------
(* Rows and chart definitions for the chart data *)

MaxChartRows == 3

ChartRow(r, v, u) == (region :> r) @@ (revenue :> v) @@ (units :> u)

\* rows whose region is a label, a number, a falsy value or nothing, and
\* whose revenue is a number, a numeral held as text or text without number
ChartRowPool ==
    { ChartRow(Str(<<"E","a","s","t">>), Num(100), Num(1)),
      ChartRow(Str(<<"W","e","s","t">>), Num(300), Num(2)),
      ChartRow(Str(<<"E","a","s","t">>), Num(50), Num(3)),
      ChartRow(Num(9), Str(<<"3","0","0">>), Num(5)),
      ChartRow(Num(10), Num(50), Num(6)),
      ChartRow(Num(0), Str(<<"n","/","a">>), Num(7)),
      ChartRow(Null, Num(50), Num(8)) }

\* the row sets of up to n different rows of the pool, in every order
RECURSIVE RowsUpTo(_)
RowsUpTo(n) ==
    IF n = 0 THEN {<<>>}
    ELSE LET shorter == RowsUpTo(n - 1)
         IN  shorter \cup UNION {{Append(rs, r) : r \in ChartRowPool \ Range(rs)} :
                                    rs \in {x \in shorter : Len(x) = n - 1}}

ChartTypes == {Str(<<"b","a","r">>), Str(<<"p","i","e">>), Str(<<"s","c","a","t","t","e","r">>), Str(<<"l","i","n","e">>), Str(<<"a","r","e","a">>)}

ChartDefinitions ==
    {[title |-> Str(<<"A">>), type |-> type, measures |-> measures,
      dimensions |-> <<Str(region)>>] :
        type \in ChartTypes, measures \in {<<Str(revenue)>>, <<Str(units), Str(revenue)>>}}

ChartInit ==
    /\ DashboardAtRest
    /\ RoutesAtRest
    /\ rows \in RowsUpTo(MaxChartRows)
    /\ cDefinition \in ChartDefinitions
    /\ cOutcome = Pending
    /\ inferred = Pending
    /\ fFilters = Undefined
    /\ fLimit = Undefined
    /\ fOutcome = Pending
    /\ ServiceAtRest
    /\ ValidationAtRest

\* the chart data of the one chart generateChartConfigs builds, nothing when
\* it builds none
CallGenerateChartConfigs ==
    /\ cOutcome = Pending
    /\ LET charts == generateChartConfigs(rows, SchemaOf(<<>>), <<cDefinition>>)
       IN  cOutcome' = [via |-> "generateChartConfigs",
                         data |-> IF charts = <<>> THEN <<>> ELSE charts[1].data]
    /\ UNCHANGED <<dashboardVars, routeVars, rows, inferred, cDefinition, fFilters, fLimit, fOutcome,
                   serviceVars, harnessVars>>

CallGenerateSingleChartConfig ==
    /\ cOutcome = Pending
    /\ LET chart == generateSingleChartConfig(rows, SchemaOf(<<>>), cDefinition)
       IN  cOutcome' = [via |-> "generateSingleChartConfig",
                         data |-> IF chart.threw THEN <<>> ELSE chart.value.data]
    /\ UNCHANGED <<dashboardVars, routeVars, rows, inferred, cDefinition, fFilters, fLimit, fOutcome,
                   serviceVars, harnessVars>>

ChartNext == CallGenerateChartConfigs \/ CallGenerateSingleChartConfig

ChartSpec == ChartInit /\ [][ChartNext]_vars
-----------------------------------------------------------------------------
(* Properties of the chart data *)

ChartBuilt == cOutcome.via # "none"
Points == cOutcome.data
PrimaryDimension == cDefinition.dimensions[1]

\* the group key of a row: the text of its dimension value, Unknown for a
\* value that JavaScript takes as false
GroupKeyOf(row) == String(OrElse(Cell(row, PrimaryDimension), Str(Unknown)))

GroupKeys == {GroupKeyOf(rows[r]) : r \in DOMAIN rows}

\* the sum of the parsed values of a measure over the rows of a group
GroupTotal(key, measure) ==
    SumOf([r \in DOMAIN rows |->
              IF GroupKeyOf(rows[r]) = key THEN NumericCell(rows[r], measure) ELSE 0])

GroupSize(key) == Cardinality({r \in DOMAIN rows : GroupKeyOf(rows[r]) = key})

PointKey(point) == GetProp(point, String(PrimaryDimension)).v

\* C14: for bar and pie the chart data has exactly one data point for each
\* group key of the first dimension, each listed measure in it is the sum of
\* the measure's parsed values over the group's rows (0 for a cell that does
\* not parse), and the points are in non-increasing order of the first measure
C14_BarPieSumsDescending ==
    (ChartBuilt /\ cDefinition.type \in {Str(<<"b","a","r">>), Str(<<"p","i","e">>)}) =>
        /\ Len(Points) = Cardinality(GroupKeys)
        /\ {PointKey(Points[i]) : i \in DOMAIN Points} = GroupKeys
        /\ \A i \in DOMAIN Points, m \in DOMAIN cDefinition.measures :
              GetProp(Points[i], String(cDefinition.measures[m]))
                  = Num(GroupTotal(PointKey(Points[i]), cDefinition.measures[m]))
        /\ \A i \in 1..(Len(Points) - 1) :
              GetProp(Points[i], String(cDefinition.measures[1])).v
                  >= GetProp(Points[i + 1], String(cDefinition.measures[1])).v

\* East 100, West 300, East 50 as a bar or pie chart of revenue by region
\* gives West 300 and then East 150
C14_Witness ==
    /\ ChartBuilt
    /\ cDefinition.type \in {Str(<<"b","a","r">>), Str(<<"p","i","e">>)}
    /\ cDefinition.measures = <<Str(revenue)>>
    /\ rows = <<ChartRow(Str(<<"E","a","s","t">>), Num(100), Num(1)),
                ChartRow(Str(<<"W","e","s","t">>), Num(300), Num(2)),
                ChartRow(Str(<<"E","a","s","t">>), Num(50), Num(3))>>
    /\ Points = << <<<<region, Str(<<"W","e","s","t">>)>>, <<revenue, Num(300)>>>>,
                   <<<<region, Str(<<"E","a","s","t">>)>>, <<revenue, Num(150)>>>> >>

\* C15: the chart data of a scatter chart holds for each group and measure
\* the average of the parsed values of the group, that of every other type
\* their sum
C15_ScatterAveragesOthersSum ==
    ChartBuilt =>
        \A i \in DOMAIN Points, m \in DOMAIN cDefinition.measures :
            LET value == GetProp(Points[i], String(cDefinition.measures[m])).v
                total == GroupTotal(PointKey(Points[i]), cDefinition.measures[m])
            IN  IF cDefinition.type = Str(<<"s","c","a","t","t","e","r">>)
                THEN value * GroupSize(PointKey(Points[i])) = total
                ELSE value = total

IsNumeral(k) == k # <<>> /\ \A i \in DOMAIN k : k[i] \in Range(Digits)

\* the order of two dimension keys: numeric if both are numbers, else by
\* date if both are dates (the order of their YYYY-MM-DD text), else by the
\* code units of the text
KeyOrder(a, b) ==
    IF IsNumeral(a) /\ IsNumeral(b) THEN digitsValue(a) - digitsValue(b)
    ELSE CompareWeights([i \in DOMAIN a |-> charCodeAt(a[i])],
                        [i \in DOMAIN b |-> charCodeAt(b[i])])

\* C16: for line and area the chart data is in ascending order of the
\* primary dimension's key, numeric where both keys are numbers (9 before 10)
C16_LineAreaAscendingByKey ==
    (ChartBuilt /\ cDefinition.type \in {Str(<<"l","i","n","e">>), Str(<<"a","r","e","a">>)}) =>
        \A i \in 1..(Len(Points) - 1) :
            KeyOrder(PointKey(Points[i]), PointKey(Points[i + 1])) <= 0

\* C17: for bar, pie and scatter the chart data is the same for every
\* order of the rows
C17_SameForEveryRowOrder ==
    (ChartBuilt /\ rows # <<>>
        /\ cDefinition.type \in {Str(<<"b","a","r">>), Str(<<"p","i","e">>), Str(<<"s","c","a","t","t","e","r">>)}) =>
        \A p \in Permutations(DOMAIN rows) :
            prepareChartData([i \in DOMAIN rows |-> rows[p[i]]], cDefinition) = Points

\* the key of the group that groupByDimension puts a row in
GroupOf(row) ==
    LET grouped == groupByDimension(rows, PrimaryDimension)
    IN  grouped[CHOOSE g \in DOMAIN grouped : row \in Range(grouped[g][2])][1]

Missing(x) == x \in {Null, Undefined}

\* C18: two rows are in the same group if and only if they have the same
\* dimension value (both missing or null counts as the same), and a row is
\* under the key Unknown exactly when its dimension value is missing or null
C18_GroupsByDimensionValue ==
    ChartBuilt =>
        /\ \A r1, r2 \in DOMAIN rows :
              LET v1 == Cell(rows[r1], PrimaryDimension)
                  v2 == Cell(rows[r2], PrimaryDimension)
              IN  (GroupOf(rows[r1]) = GroupOf(rows[r2]))
                      <=> (v1 = v2 \/ (Missing(v1) /\ Missing(v2)))
        /\ \A r \in DOMAIN rows :
              (GroupOf(rows[r]) = Unknown) <=> Missing(Cell(rows[r], PrimaryDimension))
        /\ {PointKey(Points[i]) : i \in DOMAIN Points} = {GroupOf(rows[r]) : r \in DOMAIN rows}
-----------------------------------------------------------------------------
(* Calculator: filters *)

\* Object.keys(o).length of an object held as a function from its keys
KeyCount(o) == Cardinality(DOMAIN o.v)

\* one filter entry of applyFilters on one row
FilterEntryPasses(row, filters, filterKey) ==
    LET filterValues == filters.v[filterKey]
        rowValue == Cell(row, Str(filterKey))
    IN  IF ~Truthy(filterValues) \/ Len(filterValues.v) = 0 THEN TRUE
        ELSE IF rowValue = Null \/ rowValue = Undefined
        THEN \/ Str(<<"n","u","l","l">>) \in Range(filterValues.v)
             \/ Str(<<"u","n","d","e","f","i","n","e","d">>) \in Range(filterValues.v)
        ELSE Str(String(rowValue)) \in Range(filterValues.v)

\* applyFilters that keeps a row as soon as one entry passes
applyFilters_AnyEntry(data, filters) ==
    IF ~Truthy(filters) \/ KeyCount(filters) = 0 THEN data
    ELSE SelectSeq(data, LAMBDA row :
             \E filterKey \in DOMAIN filters.v : FilterEntryPasses(row, filters, filterKey))

\* Calculator.applyFilters(data, filters)
applyFilters(data, filters) ==
    IF ~Truthy(filters) \/ KeyCount(filters) = 0 THEN data
    ELSE SelectSeq(data, LAMBDA row :
             \A filterKey \in DOMAIN filters.v : FilterEntryPasses(row, filters, filterKey))

\* data.slice(0, dataLimit)
SliceRows(data, dataLimit) ==
    SubSeq(data, 1, IF Len(data) < dataLimit.v THEN Len(data) ELSE dataLimit.v)

\* POST /suggest-charts: filteredData
SuggestChartsData(data, customFilters, dataLimit) ==
    IF Truthy(customFilters) /\ KeyCount(customFilters) > 0
    THEN applyFilters(data, customFilters)
    ELSE data

\* POST /generate-dashboard and /generate-dashboard-with-custom: filteredData,
\* filters being {} when the request has none
GenerateDashboardData(data, filters, dataLimit) ==
    applyFilters(data, IF filters = Undefined THEN Obj(<<>>) ELSE filters)

\* POST /custom-chart-combinations and /add-custom-chart: filteredData
CustomChartData(data, activeFilters, dataLimit) ==
    IF Truthy(activeFilters) /\ KeyCount(activeFilters) > 0
    THEN applyFilters(data, activeFilters)
    ELSE IF Truthy(dataLimit) THEN SliceRows(data, dataLimit)
    ELSE data

(* Inputs *)

MaxFilterRows == 3

FilterRowPool ==
    { ChartRow(Str(<<"E","a","s","t">>), Num(100), Num(1)),
      ChartRow(Str(<<"W","e","s","t">>), Num(300), Num(2)),
      ChartRow(Num(9), Str(<<"3","0","0">>), Num(5)),
      ChartRow(Null, Num(50), Num(8)),
      (revenue :> Num(50)) @@ (units :> Num(3)) }

RECURSIVE FilterRowsUpTo(_)
FilterRowsUpTo(n) ==
    IF n = 0 THEN {<<>>}
    ELSE LET shorter == FilterRowsUpTo(n - 1)
         IN  shorter \cup UNION {{Append(rs, r) : r \in FilterRowPool \ Range(rs)} :
                                    rs \in {x \in shorter : Len(x) = n - 1}}

Absent == [t |-> "absent"]

RegionFilters ==
    { Absent, Null, Arr(<<>>),
      Arr(<<Str(<<"E","a","s","t">>)>>),
      Arr(<<Str(<<"E","a","s","t">>), Str(<<"9">>)>>),
      Arr(<<Str(<<"n","u","l","l">>)>>),
      Arr(<<Str(<<"u","n","d","e","f","i","n","e","d">>), Str(<<"W","e","s","t">>)>>),
      Arr(<<Num(9)>>) }

UnitsFilters == { Absent, Arr(<<Str(<<"1">>), Str(<<"5">>), Str(<<"8">>)>>) }

GhostFilters == { Absent, Arr(<<Str(<<"x">>)>>) }

\* the filters object of a request
FilterSets ==
    { Null, Undefined } \cup
    { Obj([k \in {c \in {region, units, ghost} :
                    (CASE c = region -> r [] c = units -> u [] OTHER -> g) # Absent} |->
              CASE k = region -> r [] k = units -> u [] OTHER -> g]) :
        r \in RegionFilters, u \in UnitsFilters, g \in GhostFilters }

\* dataLimit of a request
Limits == { Undefined, Num(1), Num(2) }

FilterInit ==
    /\ DashboardAtRest
    /\ RoutesAtRest
    /\ ServiceAtRest
    /\ ValidationAtRest
    /\ inferred = Pending
    /\ cDefinition = Undefined
    /\ cOutcome = Pending
    /\ rows \in FilterRowsUpTo(MaxFilterRows)
    /\ fFilters \in FilterSets
    /\ fLimit \in Limits
    /\ fOutcome = Pending

\* calculator.applyFilters(rows, filters, dataLimit): the function has two
\* parameters, a third argument is not bound to anything
CallApplyFilters ==
    /\ fOutcome = Pending
    /\ fOutcome' = [via |-> "applyFilters", rows |-> applyFilters(rows, fFilters)]
    /\ UNCHANGED <<dashboardVars, routeVars, serviceVars, harnessVars, rows, inferred, cDefinition, cOutcome, fFilters, fLimit>>

SuggestCharts ==
    /\ fOutcome = Pending
    /\ fOutcome' = [via |-> "suggest-charts",
                    rows |-> SuggestChartsData(rows, fFilters, fLimit)]
    /\ UNCHANGED <<dashboardVars, routeVars, serviceVars, harnessVars, rows, inferred, cDefinition, cOutcome, fFilters, fLimit>>

GenerateDashboard ==
    /\ fOutcome = Pending
    /\ fOutcome' = [via |-> "generate-dashboard",
                    rows |-> GenerateDashboardData(rows, fFilters, fLimit)]
    /\ UNCHANGED <<dashboardVars, routeVars, serviceVars, harnessVars, rows, inferred, cDefinition, cOutcome, fFilters, fLimit>>

CustomChartCombinations ==
    /\ fOutcome = Pending
    /\ fOutcome' = [via |-> "custom-chart-combinations",
                    rows |-> CustomChartData(rows, fFilters, fLimit)]
    /\ UNCHANGED <<dashboardVars, routeVars, serviceVars, harnessVars, rows, inferred, cDefinition, cOutcome, fFilters, fLimit>>

FilterNext ==
    \/ CallApplyFilters
    \/ SuggestCharts
    \/ GenerateDashboard
    \/ CustomChartCombinations

FilterSpec == FilterInit /\ [][FilterNext]_vars
-----------------------------------------------------------------------------
(* Properties of the filters *)

FiltersApplied == fOutcome.via # "none"

\* the filters object a route hands on: {} where the request has none
GivenFilters == IF Truthy(fFilters) THEN fFilters ELSE Obj(<<>>)

\* an entry passes if it is absent or empty, or the text of the row's value
\* is among the allowed values, or the cell is null or undefined and "null"
\* or "undefined" is among them
EntryPasses(row, column) ==
    LET allowed == GivenFilters.v[column]
        cell == IF column \in DOMAIN row THEN row[column] ELSE Undefined
    IN  \/ allowed = Null
        \/ allowed.t = "array" /\ allowed.v = <<>>
        \/ allowed.t = "array" /\ Str(String(cell)) \in Range(allowed.v)
        \/ /\ allowed.t = "array" /\ cell \in {Null, Undefined}
           /\ Range(allowed.v) \cap {Str(<<"n","u","l","l">>),
                                     Str(<<"u","n","d","e","f","i","n","e","d">>)} # {}

RowPasses(row) == \A column \in DOMAIN GivenFilters.v : EntryPasses(row, column)

Matching == SelectSeq(rows, RowPasses)

\* C19: with a limit, the rows that applyFilters and each route that passes
\* dataLimit take on are the first limit rows that pass every filter entry
C19_AtMostLimitRows ==
    (FiltersApplied /\ fLimit # Undefined) =>
        /\ Len(fOutcome.rows) <= fLimit.v
        /\ fOutcome.rows = SubSeq(Matching, 1,
               IF Len(Matching) < fLimit.v THEN Len(Matching) ELSE fLimit.v)

\* C20: without a limit applyFilters returns the rows that pass every filter
\* entry, in their order, and all the rows for a filters object without
\* entries
C20_ExactlyThePassingRows ==
    (fOutcome.via = "applyFilters" /\ fLimit = Undefined) =>
        /\ fOutcome.rows = Matching
        /\ (fFilters = Obj(<<>>) => fOutcome.rows = rows)

\* a row is dropped by one entry while another entry passes it, and a row
\* with a null cell is kept by an entry that allows "null"
C20_Witness ==
    /\ fOutcome.via = "applyFilters" /\ fLimit = Undefined
    /\ Len(rows) = 3
    /\ Len(fOutcome.rows) = 1
    /\ fFilters.t = "object" /\ DOMAIN fFilters.v = {region, units}
    /\ \E r \in DOMAIN rows :
          /\ EntryPasses(rows[r], units) /\ ~EntryPasses(rows[r], region)
    /\ fOutcome.rows[1][region] = Null
-----------------------------------------------------------------------------
(* Calculator: filter options *)

\* [...new Set(values)]: each value once, in the order of first appearance
Distinct(values) ==
    LET given == <<>> \o values
        first == SelectSeq([i \in DOMAIN given |-> <<i, given[i]>>],
                           LAMBDA p : \A j \in 1..(p[1] - 1) : given[j] # p[2])
    IN  [i \in DOMAIN first |-> first[i][2]]

\* Array.prototype.sort() of strings without a compare function: ascending
\* by UTF-16 code units, equal strings in their given order
Sort(values) ==
    LET codes == <<>> \o [i \in DOMAIN values |->
                            <<>> \o [k \in DOMAIN values[i] |-> charCodeAt(values[i][k])]]
        rank == <<>> \o [i \in DOMAIN values |->
                    1 + Cardinality({j \in DOMAIN values \ {i} :
                            LET c == CompareWeights(codes[j], codes[i])
                            IN  c < 0 \/ (c = 0 /\ j < i)})]
    IN  [r \in DOMAIN values |-> values[CHOOSE i \in DOMAIN values : rank[i] = r]]

MaxFilterOptions == 50

\* the sorted distinct String(row[name]) of the cells that are neither null
\* nor undefined
OptionValues(data, name) ==
    LET cells == [i \in DOMAIN data |-> Cell(data[i], Str(name))]
        present == SelectSeq(cells, LAMBDA val : val # Null /\ val # Undefined)
    IN  Sort(Distinct([i \in DOMAIN present |-> String(present[i])]))

\* the loop of getFilterOptions with >= 1 for > 1 in the test of line 294
RECURSIVE FilterOptionsOf_FromOne(_, _, _)
FilterOptionsOf_FromOne(data, dimensions, filterOptions) ==
    IF dimensions = <<>> THEN filterOptions
    ELSE LET name == Head(dimensions).name
             values == OptionValues(data, name)
             entry == [label |-> formatColumnName(name),
                       options |-> [i \in DOMAIN values |->
                                       [label |-> values[i], value |-> values[i]]]]
         IN  FilterOptionsOf_FromOne(data, Tail(dimensions),
                 IF Len(values) >= 1 /\ Len(values) <= MaxFilterOptions
                 THEN SetProp(filterOptions, name, entry)
                 ELSE filterOptions)

\* schema.dimensions.forEach of getFilterOptions
RECURSIVE FilterOptionsOf(_, _, _)
FilterOptionsOf(data, dimensions, filterOptions) ==
    IF dimensions = <<>> THEN filterOptions
    ELSE LET name == Head(dimensions).name
             values == OptionValues(data, name)
             entry == [label |-> formatColumnName(name),
                       options |-> [i \in DOMAIN values |->
                                       [label |-> values[i], value |-> values[i]]]]
         IN  FilterOptionsOf(data, Tail(dimensions),
                 IF Len(values) > 1 /\ Len(values) <= MaxFilterOptions
                 THEN SetProp(filterOptions, name, entry)
                 ELSE filterOptions)

\* Calculator.getFilterOptions
getFilterOptions(data, schema) == FilterOptionsOf(data, schema.dimensions, <<>>)

(* Inputs *)

\* how many different region values the row set has
OptionCounts ==
    { 0, 1, 2, 3, 20, MaxFilterOptions - 1, MaxFilterOptions,
      MaxFilterOptions + 1, MaxFilterOptions + 2 }

\* what else the region column holds: nothing, values again (as numbers of
\* the same text), null cells, or rows without the key
OptionExtras == { "none", "again", "null", "missing" }

\* n rows with the region values "1" .. "n" and units cycling over 1 .. u,
\* then two more rows as the extras say
OptionRows(n, u, extras) ==
    [i \in 1..n |-> ChartRow(Str(numberToString(i)), Num(100), Num(1 + (i % u)))]
    \o (CASE extras = "again" -> <<ChartRow(Num(1), Num(50), Num(1)),
                                   ChartRow(Str(<<"1">>), Num(50), Num(1))>>
          [] extras = "null" -> <<ChartRow(Null, Num(50), Num(1)),
                                  ChartRow(Null, Num(50), Num(1))>>
          [] extras = "missing" -> <<(revenue :> Num(50)) @@ (units :> Num(1)),
                                     ChartRow(Undefined, Num(50), Num(1))>>
          [] OTHER -> <<>>)

\* schemas in which region and units are dimensions, region alone is, or
\* units alone is (region then being taken for a measure)
OptionSchemas ==
    { SchemaOf(<<Column(region, "string", 3), Column(units, "number", 3)>>),
      SchemaOf(<<Column(region, "string", 3), Column(units, "number", 12)>>),
      SchemaOf(<<Column(region, "number", 12), Column(units, "number", 3)>>),
      SchemaOf(<<Column(revenue, "number", 12)>>) }

OptionsInit ==
    /\ DashboardAtRest
    /\ RoutesAtRest
    /\ ServiceAtRest
    /\ vCandidate = Undefined
    /\ vOutcome = Pending
    /\ inferred = Pending
    /\ cDefinition = Undefined
    /\ cOutcome = Pending
    /\ fFilters = Undefined
    /\ fLimit = Undefined
    /\ fOutcome = Pending
    /\ vSchema \in OptionSchemas
    /\ \E n \in OptionCounts, u \in {1, 3}, extras \in OptionExtras, reversed \in BOOLEAN :
          rows = IF reversed THEN Reverse(OptionRows(n, u, extras))
                 ELSE OptionRows(n, u, extras)

CallGetFilterOptions ==
    /\ fOutcome = Pending
    /\ fOutcome' = [via |-> "getFilterOptions", options |-> getFilterOptions(rows, vSchema)]
    /\ UNCHANGED <<dashboardVars, routeVars, serviceVars, harnessVars, rows, inferred, cDefinition, cOutcome, fFilters, fLimit>>

OptionsNext == CallGetFilterOptions

OptionsSpec == OptionsInit /\ [][OptionsNext]_vars

(* Properties of the filter options *)

OptionsBuilt == fOutcome.via = "getFilterOptions"

\* the texts of the cells of a column that are neither null nor missing
DistinctTexts(column) ==
    {String(rows[r][column]) :
        r \in {i \in DOMAIN rows : column \in DOMAIN rows[i]
                                     /\ rows[i][column] \notin {Null, Undefined}}}

\* a before b in the order of the code units
CodeUnitBefore(a, b) ==
    CompareWeights([i \in DOMAIN a |-> charCodeAt(a[i])],
                   [i \in DOMAIN b |-> charCodeAt(b[i])]) < 0

\* C21: getFilterOptions has an entry for a column exactly when the column
\* is a dimension of the schema with 2 to 50 different stringified non-null
\* values, and the options of the entry are those values, each once, in
\* ascending order
C21_OptionsForDimensionsInRange ==
    OptionsBuilt =>
        \A column \in {region, revenue, units} :
            /\ HasProp(fOutcome.options, column) <=>
                   /\ column \in DimensionNames(vSchema)
                   /\ Cardinality(DistinctTexts(column)) \in 2..50
            /\ HasProp(fOutcome.options, column) =>
                   LET options == GetProp(fOutcome.options, column).options
                   IN  /\ {options[i].value : i \in DOMAIN options} = DistinctTexts(column)
                       /\ Len(options) = Cardinality(DistinctTexts(column))
                       /\ \A i \in 1..(Len(options) - 1) :
                              CodeUnitBefore(options[i].value, options[i + 1].value)

\* a dimension with 50 values has its entry, in the same call a dimension
\* with 1 value has none
C21_Witness ==
    /\ OptionsBuilt
    /\ DimensionNames(vSchema) = {region, units}
    /\ Cardinality(DistinctTexts(region)) = 50
    /\ Cardinality(DistinctTexts(units)) = 1
    /\ HasProp(fOutcome.options, region)
    /\ Len(GetProp(fOutcome.options, region).options) = 50
    /\ ~HasProp(fOutcome.options, units)
-----------------------------------------------------------------------------
(* AIService.getFallbackSuggestions over schemas with up to MaxMeasures
   measures *)

MaxMeasures == 5

\* the i-th measure column, named m1, m2, ...
MeasureCol(i) == Column(<<"m">> \o numberToString(i), "number", 12)

\* dimension columns: labels with 3, 10 and 11 distinct values, a number
\* column with 5 distinct values, and two date columns
DimensionLists ==
    { <<>>,
      <<RegionCol>>,
      <<Column(region, "string", 10)>>,
      <<Column(region, "string", 11)>>,
      <<UnitsCol, RegionCol>>,
      <<Column(region, "string", 11), DayCol>>,
      <<DayCol, RegionCol>>,
      <<RegionCol, DayCol, Column(<<"d","a","t","e">>, "date", 4)>>,
      <<Column(<<"d","a","t","e">>, "date", 20), DayCol>> }

FallbackSchemas ==
    { SchemaOf(IF measuresFirst THEN [i \in 1..m |-> MeasureCol(i)] \o ds
               ELSE ds \o [i \in 1..m |-> MeasureCol(i)]) :
        m \in 0..MaxMeasures, ds \in DimensionLists, measuresFirst \in BOOLEAN }

FallbackInit ==
    /\ DashboardAtRest
    /\ RoutesAtRest
    /\ ServiceAtRest
    /\ CalculatorAtRest
    /\ vSchema \in FallbackSchemas
    /\ vCandidate = Undefined
    /\ vOutcome = Pending

CallGetFallbackSuggestions ==
    /\ vOutcome = Pending
    /\ vOutcome' = [via |-> "getFallbackSuggestions", out |-> getFallbackSuggestions(vSchema)]
    /\ UNCHANGED <<dashboardVars, routeVars, serviceVars, calcVars, vSchema, vCandidate>>

FallbackNext == CallGetFallbackSuggestions

FallbackSpec == FallbackInit /\ [][FallbackNext]_vars

(* Properties of the fallback suggestions *)

FallbackBuilt == vOutcome.via = "getFallbackSuggestions"

Least(a, b) == IF a < b THEN a ELSE b

\* C22: for a schema with at least one column the KPI list is the count KPI
\* over "*" followed by one sum KPI for each of the first min(4, number of
\* measures) measures, in schema order
C22_CountThenUpToFourSums ==
    (FallbackBuilt /\ Len(vSchema.columns) >= 1) =>
        LET kpis == vOutcome.out.kpis
            sums == Least(4, Len(vSchema.measures))
        IN  /\ Len(kpis) = 1 + sums
            /\ kpis[1].calculation = Str(<<"c","o","u","n","t">>) /\ kpis[1].column = Str(star)
            /\ \A i \in 1..sums :
                  /\ kpis[i + 1].calculation = Str(<<"s","u","m">>)
                  /\ kpis[i + 1].column = Str(vSchema.measures[i].name)

ChartOfType(charts, type) == SelectSeq(charts, LAMBDA c : c.type = Str(type))

\* C23: the chart list has at most 4 charts, none without a measure or
\* without a dimension, and else in this order a bar chart of the first
\* measure by the first dimension, a line chart exactly with 2 or more
\* measures, a pie chart exactly with a first dimension of at most 10
\* unique values, an area chart over the first date dimension exactly when
\* some dimension is a date
C23_FallbackCharts ==
    FallbackBuilt =>
        LET charts == vOutcome.out.charts
            dates == {i \in DOMAIN vSchema.dimensions : vSchema.dimensions[i].type = "date"}
            first == [measures |-> <<Str(vSchema.measures[1].name)>>,
                      dimensions |-> <<Str(vSchema.dimensions[1].name)>>]
            Shape(c) == [measures |-> c.measures, dimensions |-> c.dimensions]
            expected ==
                <<<<"b","a","r">>>>
                \o (IF Len(vSchema.measures) >= 2 THEN <<<<"l","i","n","e">>>> ELSE <<>>)
                \o (IF vSchema.dimensions[1].uniqueValues <= 10 THEN <<<<"p","i","e">>>> ELSE <<>>)
                \o (IF dates # {} THEN <<<<"a","r","e","a">>>> ELSE <<>>)
        IN  /\ Len(charts) <= 4
            /\ (vSchema.measures = <<>> \/ vSchema.dimensions = <<>>) => charts = <<>>
            /\ (vSchema.measures # <<>> /\ vSchema.dimensions # <<>>) =>
                  /\ [i \in DOMAIN charts |-> charts[i].type.v] = expected
                  /\ \A i \in DOMAIN charts :
                        IF charts[i].type = Str(<<"a","r","e","a">>)
                        THEN Shape(charts[i]) =
                                [measures |-> first.measures,
                                 dimensions |-> <<Str(vSchema.dimensions[
                                     CHOOSE d \in dates : \A e \in dates : d <= e].name)>>]
                        ELSE Shape(charts[i]) = first

\* all four charts at once, the area chart over the first of two date
\* dimensions, which is not the first dimension
C23_Witness ==
    /\ FallbackBuilt
    /\ Len(vSchema.measures) >= 2
    /\ Len(vSchema.dimensions) = 3
    /\ vSchema.dimensions[2].type = "date" /\ vSchema.dimensions[3].type = "date"
    /\ Len(vOutcome.out.charts) = 4
    /\ vOutcome.out.charts[4].type = Str(<<"a","r","e","a">>)
    /\ vOutcome.out.charts[4].dimensions = <<Str(day)>>
-----------------------------------------------------------------------------
(* Calculator.calculateGrowthRate *)

\* new Date(text) for a YYYY-MM-DD text, as a number that grows with the time
DateValue(x) ==
    10000 * digitsValue(SubSeq(x.v, 1, 4)) + 100 * digitsValue(SubSeq(x.v, 6, 7))
        + digitsValue(SubSeq(x.v, 9, 10))

\* Calculator.calculateGrowthRate: the rate as a fraction, or NaN
calculateGrowthRate(data, dateColumn, valueColumn) ==
    LET kept == SelectSeq(data, LAMBDA row :
                    Truthy(Cell(row, dateColumn)) /\ Truthy(Cell(row, valueColumn)))
        byDate == <<>> \o [i \in DOMAIN kept |-> <<>> \o [j \in DOMAIN kept |->
                      DateValue(Cell(kept[i], dateColumn)) - DateValue(Cell(kept[j], dateColumn))]]
        sortedData == SortBy(kept, byDate)
        firstValue == parseFloat(Cell(sortedData[1], valueColumn))
        lastValue == parseFloat(Cell(sortedData[Len(sortedData)], valueColumn))
    IN  IF Len(sortedData) < 2 THEN Rational(0, 1)
        ELSE IF firstValue.nan \/ lastValue.nan THEN NotANumber
        ELSE IF firstValue.v = 0 THEN Rational(0, 1)
        ELSE Rational((lastValue.v - firstValue.v) * 100, firstValue.v)

(* Inputs *)

MaxGrowthRows == 3

DatedRow(d, v) == (day :> d) @@ (revenue :> v)

\* rows with a date and a number, the number 0, the text "0", a numeral
\* held as text, no value, and a row without date
GrowthRowPool ==
    { DatedRow(Str(<<"2","0","2","4","-","0","1","-","0","1">>), Num(100)),
      DatedRow(Str(<<"2","0","2","4","-","0","6","-","0","1">>), Num(150)),
      DatedRow(Str(<<"2","0","2","3","-","1","2","-","0","1">>), Num(0)),
      DatedRow(Str(<<"2","0","2","3","-","1","1","-","1","5">>), Str(<<"0">>)),
      DatedRow(Str(<<"2","0","2","4","-","0","9","-","0","1">>), Str(<<"5","0">>)),
      DatedRow(Str(<<"2","0","2","4","-","0","3","-","0","1">>), Null),
      DatedRow(Null, Num(70)) }

\* the sequences of up to n different elements of pool
RECURSIVE Arrangements(_, _)
Arrangements(pool, n) ==
    IF n = 0 THEN {<<>>}
    ELSE LET shorter == Arrangements(pool, n - 1)
         IN  shorter \cup UNION {{Append(rs, r) : r \in pool \ Range(rs)} :
                                    rs \in {x \in shorter : Len(x) = n - 1}}

GrowthInit ==
    /\ DashboardAtRest
    /\ RoutesAtRest
    /\ ServiceAtRest
    /\ ValidationAtRest
    /\ inferred = Pending
    /\ cDefinition = Undefined
    /\ cOutcome = Pending
    /\ fFilters = Undefined
    /\ fLimit = Undefined
    /\ fOutcome = Pending
    /\ rows \in Arrangements(GrowthRowPool, MaxGrowthRows)

CallCalculateGrowthRate ==
    /\ fOutcome = Pending
    /\ fOutcome' = [via |-> "calculateGrowthRate",
                    value |-> calculateGrowthRate(rows, Str(day), Str(revenue))]
    /\ UNCHANGED <<dashboardVars, routeVars, serviceVars, harnessVars, rows, inferred, cDefinition, cOutcome, fFilters, fLimit>>

GrowthNext == CallCalculateGrowthRate

GrowthSpec == GrowthInit /\ [][GrowthNext]_vars

(* Properties of the growth rate *)

GrowthComputed == fOutcome.via = "calculateGrowthRate"

\* the rows that have a date, and those among them with the earliest and
\* the latest date
DatedRows == {r \in DOMAIN rows : rows[r][day] # Null}
Earliest == CHOOSE r \in DatedRows : \A q \in DatedRows : DateValue(rows[r][day]) <= DateValue(rows[q][day])
Latest == CHOOSE r \in DatedRows : \A q \in DatedRows : DateValue(rows[r][day]) >= DateValue(rows[q][day])

\* the rate is the fraction num / den
RateIs(growth, num, den) == ~growth.nan /\ growth.num * den = num * growth.den

\* C24: where every dated row has a number as value, the growth rate is
\* (last - first) / first * 100 for the values of the earliest and latest
\* dated rows, and 0 with fewer than two dated rows or a first value of 0
C24_GrowthFromFirstToLast ==
    (GrowthComputed /\ \A r \in DatedRows : ~parseFloat(rows[r][revenue]).nan) =>
        LET growth == fOutcome.value @@ [nan |-> FALSE]
        IN  IF Cardinality(DatedRows) < 2 THEN RateIs(growth, 0, 1)
            ELSE LET first == parseFloat(rows[Earliest][revenue]).v
                     last == parseFloat(rows[Latest][revenue]).v
                 IN  IF first = 0 THEN RateIs(growth, 0, 1)
                     ELSE RateIs(growth, (last - first) * 100, first)
-----------------------------------------------------------------------------
(* Calculator.calculateKPIs over lists of KPI definitions *)

MaxDefinitions == 3

KpiDefinition(calculation, column, format) ==
    [name |-> Str(String(calculation) \o <<" ">> \o String(column)),
     calculation |-> calculation, column |-> column, format |-> format]

\* definitions with each calculation the switch knows, one in capitals, one
\* the switch does not know, and two without calculation
KpiDefinitionPool ==
    { KpiDefinition(Str(<<"s","u","m">>), Str(revenue), Str(<<"c","u","r","r","e","n","c","y">>)),
      KpiDefinition(Str(<<"a","v","g">>), Str(revenue), Str(<<"n","u","m","b","e","r">>)),
      KpiDefinition(Str(<<"c","o","u","n","t">>), Str(star), Str(<<"n","u","m","b","e","r">>)),
      KpiDefinition(Str(<<"c","o","u","n","t">>), Str(region), Undefined),
      KpiDefinition(Str(<<"m","a","x">>), Str(revenue), Str(<<"n","u","m","b","e","r">>)),
      KpiDefinition(Str(<<"m","i","n">>), Str(revenue), Str(<<"p","e","r","c","e","n","t">>)),
      KpiDefinition(Str(<<"S","U","M">>), Str(revenue), Str(<<"n","u","m","b","e","r">>)),
      KpiDefinition(Str(<<"m","e","d","i","a","n">>), Str(revenue), Str(<<"n","u","m","b","e","r">>)),
      KpiDefinition(Undefined, Str(revenue), Str(<<"n","u","m","b","e","r">>)),
      KpiDefinition(Null, Str(star), Str(<<"n","u","m","b","e","r">>)) }

\* no row (the filters match nothing), one row, and rows with a numeral
\* held as text, text without number and an empty region
KpiDataSets ==
    DataSets \cup
    { <<Row(Str(<<"E","a","s","t">>), Num(100))>>,
      <<Row(Str(<<>>), Num(0)), Row(Str(<<"W","e","s","t">>), Num(300)), Row(Str(<<"E","a","s","t">>), Num(50))>> }

KpiInit ==
    /\ DashboardAtRest
    /\ RoutesAtRest
    /\ ServiceAtRest
    /\ ValidationAtRest
    /\ inferred = Pending
    /\ fFilters = Undefined
    /\ fLimit = Undefined
    /\ fOutcome = Pending
    /\ rows \in KpiDataSets
    /\ cDefinition \in Arrangements(KpiDefinitionPool, MaxDefinitions)
    /\ cOutcome = Pending

CallCalculateKPIs ==
    /\ cOutcome = Pending
    /\ cOutcome' = [via |-> "calculateKPIs",
                    kpis |-> calculateKPIs(rows, SchemaOf(<<RegionCol, RevenueCol>>), cDefinition)]
    /\ UNCHANGED <<dashboardVars, routeVars, serviceVars, harnessVars, rows, inferred, cDefinition, fFilters, fLimit, fOutcome>>

KpiNext == CallCalculateKPIs

KpiSpec == KpiInit /\ [][KpiNext]_vars

(* Properties of the KPI results *)

KpisComputed == cOutcome.via = "calculateKPIs"

\* a definition whose calculation the switch knows, in any case of letters
KnownCalculation(definition) ==
    /\ definition.calculation.t = "string"
    /\ toLowerCase(definition.calculation.v) \in KnownCalculations

KnownDefinitions == SelectSeq(cDefinition, KnownCalculation)

\* C25: calculateKPIs returns one result for each definition with a known
\* calculation, in the order of the definitions, and none for a definition
\* whose calculation is unknown or absent
C25_UnknownSkippedOthersKept ==
    KpisComputed =>
        /\ Len(cOutcome.kpis) = Len(KnownDefinitions)
        /\ \A i \in DOMAIN KnownDefinitions :
              /\ cOutcome.kpis[i].name = KnownDefinitions[i].name
              /\ cOutcome.kpis[i].calculation = KnownDefinitions[i].calculation
              /\ cOutcome.kpis[i].column = KnownDefinitions[i].column

\* a definition without calculation between two known ones
C25_Witness ==
    /\ KpisComputed
    /\ Len(cDefinition) = 3
    /\ KnownCalculation(cDefinition[1])
    /\ cDefinition[2].calculation = Undefined
    /\ KnownCalculation(cDefinition[3])
    /\ Len(cOutcome.kpis) = 2
    /\ cOutcome.kpis[2].name = cDefinition[3].name

\* C27: the value of every result with calculation sum, avg, count, max or
\* min is a finite number, and 0 where there is no row
C27_ValuesFiniteZeroWhenEmpty ==
    KpisComputed =>
        \A i \in DOMAIN cOutcome.kpis :
            cOutcome.kpis[i].calculation \in SpecCalculations =>
                /\ IsFinite(cOutcome.kpis[i].value)
                /\ rows = <<>> => cOutcome.kpis[i].value.num = 0
-----------------------------------------------------------------------------
(* Properties of the cache key *)

\* the name and type of each column of a schema, in order
NameTypePairs(schema) ==
    [i \in DOMAIN schema.columns |-> <<schema.columns[i].name, schema.columns[i].type>>]

ColumnNames(schema) == {schema.columns[i].name : i \in DOMAIN schema.columns}

\* the columns a suggestion set names
NamedColumns(s) ==
    {s.kpis[i].column.v : i \in DOMAIN s.kpis}
        \cup UNION {{c.v : c \in Range(s.charts[i].measures) \cup Range(s.charts[i].dimensions)} :
                       i \in DOMAIN s.charts}

\* C26: calls whose schemas differ in their name and type pairs have
\* different cache keys, and a set returned from the cache names only
\* columns of the schema of the call (or "*")
C26_CacheKeySeparatesSchemas ==
    /\ \A c, d \in Calls :
          (calls[c].pc # "idle" /\ calls[d].pc # "idle"
              /\ calls[c].cacheKey = calls[d].cacheKey)
          => NameTypePairs(calls[c].schema) = NameTypePairs(calls[d].schema)
    /\ \A c \in Calls :
          (calls[c].pc = "returned" /\ calls[c].hit)
          => NamedColumns(calls[c].result) \subseteq ColumnNames(calls[c].schema) \cup {star}
-----------------------------------------------------------------------------
(* AIService: custom chart combinations *)

\* one entry of the forEach of validateCustomCombinations: the list with
\* the entry added or not, or the TypeError the entry raises
ValidateCombination(combo, index, selectedMeasures, selectedDimensions, validCombinations) ==
    IF ~CanRead(combo) THEN Throw("TypeError")
    ELSE IF ~(Truthy(Get(combo, "type")) /\ Truthy(Get(combo, "measures"))
                /\ Truthy(Get(combo, "dimensions")))
    THEN Return(validCombinations)
    ELSE IF ~IsArray(Get(combo, "measures")) \/ ~IsArray(Get(combo, "dimensions"))
    THEN Throw("TypeError")
    ELSE LET validMeasures == SelectSeq(Get(combo, "measures").v,
                                        LAMBDA m : m \in Range(selectedMeasures))
             validDimensions == SelectSeq(Get(combo, "dimensions").v,
                                          LAMBDA d : d \in Range(selectedDimensions))
             type == Get(combo, "type")
         IN  IF validMeasures = <<>> \/ validDimensions = <<>> THEN Return(validCombinations)
             ELSE IF ~Truthy(Get(combo, "title")) /\ type.t # "string" THEN Throw("TypeError")
             ELSE Return(Append(validCombinations,
                     [title |-> IF Truthy(Get(combo, "title")) THEN Get(combo, "title")
                                ELSE Str(<<toUpperCase(type.v[1])>> \o Tail(type.v)
                                         \o <<" ","C","h","a","r","t"," ">>
                                         \o numberToString(index)),
                      type |-> type,
                      measures |-> validMeasures,
                      dimensions |-> validDimensions,
                      isAiGenerated |-> TRUE]))

\* AIService.validateCustomCombinations on the value of
\* parsed.combinations || []
RECURSIVE validateCustomCombinations(_, _, _)
validateCustomCombinations(combinations, selectedMeasures, selectedDimensions) ==
    IF ~IsArray(combinations) THEN Throw("TypeError")
    ELSE IF combinations.v = <<>> THEN Return(<<>>)
    ELSE LET n == Len(combinations.v)
             before == validateCustomCombinations(Arr(SubSeq(combinations.v, 1, n - 1)),
                                                  selectedMeasures, selectedDimensions)
         IN  IF before.threw THEN before
             ELSE ValidateCombination(combinations.v[n], n, selectedMeasures,
                                      selectedDimensions, before.value)

\* selectedDimensions.find over schema.dimensions?.find: the first selected
\* dimension whose first schema entry of that name is one of the fitting
\* entries, else the first selected dimension
FindDimension(schema, selectedDimensions, fitting) ==
    LET found == SelectSeq(selectedDimensions, LAMBDA dim :
                     \E i \in DOMAIN schema.dimensions :
                         /\ \A j \in 1..(i - 1) : schema.dimensions[j].name # dim.v
                         /\ schema.dimensions[i].name = dim.v
                         /\ schema.dimensions[i] \in fitting)
    IN  IF found # <<>> THEN found[1] ELSE selectedDimensions[1]

\* AIService.getFallbackCustomCombinations: one combination for each of
\* bar, line, pie and area; with two or more selected measures the area
\* case hands formatColumnName an array, which raises a TypeError, and
\* so does the bar case without a selected measure or dimension
getFallbackCustomCombinations(schema, selectedMeasures, selectedDimensions) ==
    IF selectedMeasures = <<>> \/ selectedDimensions = <<>> \/ Len(selectedMeasures) > 1
    THEN Throw("TypeError")
    ELSE LET Combination(chartType, dimension) ==
                 [title |-> Str(formatColumnName(selectedMeasures[1].v) \o <<" ","b","y"," ">>
                                \o formatColumnName(dimension.v)),
                  type |-> Str(chartType),
                  measures |-> <<selectedMeasures[1]>>,
                  dimensions |-> <<dimension>>,
                  isAiGenerated |-> FALSE]
             dated == {d \in Range(schema.dimensions) : d.type = "date"}
             small == {d \in Range(schema.dimensions) : d.uniqueValues <= PieMaxUnique}
         IN  Return(<<Combination(<<"b","a","r">>, selectedDimensions[1]),
                      Combination(<<"l","i","n","e">>,
                                  FindDimension(schema, selectedDimensions, dated)),
                      Combination(<<"p","i","e">>,
                                  FindDimension(schema, selectedDimensions, small)),
                      Combination(<<"a","r","e","a">>, selectedDimensions[1])>>)

\* AIService.parseAICustomCombinations: the validated combinations, or in
\* the catch the fallback for the schema {}, which may raise in its turn
parseAICustomCombinations(content, selectedMeasures, selectedDimensions) ==
    LET parsed == JSONparse(ExtractJson(content))
        validated ==
            IF parsed.threw THEN parsed
            ELSE IF ~CanRead(parsed.value) THEN Throw("TypeError")
            ELSE validateCustomCombinations(
                     OrElse(Get(parsed.value, "combinations"), Arr(<<>>)),
                     selectedMeasures, selectedDimensions)
    IN  IF validated.threw
        THEN getFallbackCustomCombinations(SchemaOf(<<>>), selectedMeasures, selectedDimensions)
        ELSE validated

\* AIService.getAICustomCombinations
getAICustomCombinations(schema, selectedMeasures, selectedDimensions, hasKey, response) ==
    IF ~hasKey THEN Throw("AI API key not configured")
    ELSE IF response.kind = "rejected" THEN Throw("fetch failed")
    ELSE IF response.kind = "notOk" THEN Throw("AI API error")
    ELSE IF response.kind = "bodyNotJson" THEN Throw("SyntaxError")
    ELSE IF response.kind = "noChoices" THEN Throw("TypeError")
    ELSE IF response.kind = "noContent" THEN Throw("No AI response received")
    ELSE parseAICustomCombinations(response.content, selectedMeasures, selectedDimensions)

\* AIService.getCustomChartCombinations: the inner try with the fallback in
\* its catch, and the outer catch that calls the fallback once more; what
\* the second call raises rejects the promise
getCustomChartCombinations(schema, selectedMeasures, selectedDimensions, hasKey, response) ==
    LET tried == getAICustomCombinations(schema, selectedMeasures, selectedDimensions,
                                         hasKey, response)
        inner == IF tried.threw
                 THEN getFallbackCustomCombinations(schema, selectedMeasures, selectedDimensions)
                 ELSE tried
    IN  IF inner.threw
        THEN getFallbackCustomCombinations(schema, selectedMeasures, selectedDimensions)
        ELSE inner

(* Inputs *)

Combinations(list) == Obj([combinations |-> list])

ComboBar == Chart(Str(<<"A">>), Str(<<"b","a","r">>), Arr(<<Str(revenue)>>), Arr(<<Str(region)>>))
ComboGhost == Chart(Str(<<"B">>), Str(<<"l","i","n","e">>), Arr(<<Str(ghost)>>), Arr(<<Str(ghost), Str(blank)>>))
ComboUntitled == Chart(Undefined, Str(<<"p","i","e">>), Arr(<<Str(ghost), Str(revenue)>>), Arr(<<Str(day), Str(region)>>))
ComboText == Chart(Str(<<"E">>), Str(<<"p","i","e">>), Str(revenue), Arr(<<Str(region)>>))

\* what the external service answers: a failure, text without JSON, JSON
\* that is no object, and objects whose combinations are absent, empty,
\* all over unselected columns, valid, mixed, or not a list
CustomResponses ==
    {Failure(k) : k \in FailureKinds}
    \cup { Answer(Content("bare", Malformed)),
           Answer(Content("bare", Null)),
           Answer(Content("prose", Num(7))),
           Answer(Content("fenced", Obj([note |-> Str(<<"n","o","n","e">>)]))),
           Answer(Content("fenced", Combinations(Arr(<<>>)))),
           Answer(Content("bare", Combinations(Arr(<<ComboGhost>>)))),
           Answer(Content("prose", Combinations(Arr(<<ComboGhost, ComboGhost>>)))),
           Answer(Content("fenced", Combinations(Arr(<<ComboBar>>)))),
           Answer(Content("bare", Combinations(Arr(<<ComboGhost, ComboUntitled, ComboBar>>)))),
           Answer(Content("bare", Combinations(Arr(<<ComboBar, ComboText>>)))),
           Answer(Content("bare", Combinations(Arr(<<Null, ComboBar>>)))),
           Answer(Content("fenced", Combinations(Str(<<"n","o","n","e">>)))) }

SelectedMeasureLists == { <<Str(revenue)>>, <<Str(rate)>>, <<Str(revenue), Str(rate)>> }
SelectedDimensionLists == { <<Str(region)>>, <<Str(region), Str(day)>> }

CustomSchema == SchemaOf(<<Column(region, "string", 11), DayCol, RevenueCol, RateCol>>)

CustomInit ==
    /\ DashboardAtRest
    /\ RoutesAtRest
    /\ apiKey \in BOOLEAN
    /\ cache = <<>>
    /\ calls = <<>>
    /\ hostFault = "none"
    /\ sessions = {}
    /\ CalculatorAtRest
    /\ vSchema = CustomSchema
    /\ \E sm \in SelectedMeasureLists, sd \in SelectedDimensionLists, response \in CustomResponses :
          vCandidate = [selectedMeasures |-> sm, selectedDimensions |-> sd,
                        response |-> response]
    /\ vOutcome = Pending

CallGetCustomChartCombinations ==
    /\ vOutcome = Pending
    /\ vOutcome' = [via |-> "getCustomChartCombinations",
                    out |-> getCustomChartCombinations(vSchema, vCandidate.selectedMeasures,
                                vCandidate.selectedDimensions, apiKey, vCandidate.response)]
    /\ UNCHANGED <<dashboardVars, routeVars, serviceVars, calcVars, vSchema, vCandidate>>

CustomNext == CallGetCustomChartCombinations

CustomSpec == CustomInit /\ [][CustomNext]_vars

(* Properties of the custom chart combinations *)

\* C28: for non-empty selected measures and dimensions
\* getCustomChartCombinations does not reject and returns at least one
\* combination, whatever the external service answers
C28_NeverRejectsNeverEmpty ==
    vOutcome.via = "getCustomChartCombinations" =>
        /\ ~vOutcome.out.threw
        /\ Len(vOutcome.out.value) >= 1
-----------------------------------------------------------------------------
(* Dashboard component: filter and data limit changes *)

MaxRequests == 3

\* the rows of the session the dashboard shows
DashboardRows ==
    << ChartRow(Str(<<"E","a","s","t">>), Num(100), Num(1)),
       ChartRow(Str(<<"W","e","s","t">>), Num(300), Num(2)),
       ChartRow(Str(<<"E","a","s","t">>), Num(50), Num(3)) >>

\* result.dashboard of generateDashboard(sessionId, filters, null, null,
\* newDataLimit, true): the kpis, charts and dataCount the route computes,
\* all of them from the filtered rows of the session
DashboardOf(filters, newDataLimit) ==
    LET filteredData == GenerateDashboardData(DashboardRows, filters, newDataLimit)
    IN  [filteredData |-> filteredData, dataCount |-> Len(filteredData)]

\* the filters and data limits the user chooses
DashboardFilters ==
    { Obj(<<>>), Obj(region :> Arr(<<Str(<<"E","a","s","t">>)>>)), Obj(region :> Arr(<<Str(<<"W","e","s","t">>)>>)) }
DashboardLimits == { Null, Num(1000), Num(50000) }

PerformanceLimit == 10000

\* updateDashboardWithFilters up to its await: chartsUpdating is set and
\* the request is in flight
IssueRequest(filters, newDataLimit, from) ==
    Append(requests, [filters |-> filters, dataLimit |-> newDataLimit, from |-> from,
                      state |-> "pending"])

\* handleFilterChange(newFilters): updateDashboardWithFilters(newFilters),
\* the data limit being the dataLimit state
HandleFilterChange ==
    /\ Len(requests) < MaxRequests
    /\ \E newFilters \in DashboardFilters :
          requests' = IssueRequest(newFilters, dataLimitState, "handleFilterChange")
    /\ chartsUpdating' = TRUE
    /\ UNCHANGED <<dashboardData, activeFiltersState, dataLimitState, performanceMode>>
    /\ UNCHANGED <<serviceVars, harnessVars, calcVars, routeVars>>

\* handleDataLimitChange(newDataLimit) up to the await
HandleDataLimitChange ==
    /\ Len(requests) < MaxRequests
    /\ \E newDataLimit \in DashboardLimits :
          /\ dataLimitState' = newDataLimit
          /\ requests' = IssueRequest(activeFiltersState, newDataLimit, "handleDataLimitChange")
    /\ chartsUpdating' = TRUE
    /\ UNCHANGED <<dashboardData, activeFiltersState, performanceMode>>
    /\ UNCHANGED <<serviceVars, harnessVars, calcVars, routeVars>>

\* setPerformanceMode after the await of handleDataLimitChange
PerformanceModeAfter(request) ==
    IF request.from = "handleDataLimitChange"
    THEN request.dataLimit # Null /\ request.dataLimit.v <= PerformanceLimit
    ELSE performanceMode

\* the response of a request in flight arrives: the rest of the try block
\* of updateDashboardWithFilters, its finally, and the rest of
\* handleDataLimitChange
ResponseArrives ==
    \E i \in DOMAIN requests :
        /\ requests[i].state = "pending"
        /\ requests' = [requests EXCEPT ![i].state = "resolved"]
        /\ dashboardData' = [dashboard |-> DashboardOf(requests[i].filters, requests[i].dataLimit),
                             activeFilters |-> requests[i].filters]
        /\ activeFiltersState' = requests[i].filters
        /\ chartsUpdating' = FALSE
        /\ performanceMode' = PerformanceModeAfter(requests[i])
        /\ UNCHANGED dataLimitState
        /\ UNCHANGED <<serviceVars, harnessVars, calcVars, routeVars>>

\* the request fails: the catch and the finally of
\* updateDashboardWithFilters, and the rest of handleDataLimitChange
RequestFails ==
    \E i \in DOMAIN requests :
        /\ requests[i].state = "pending"
        /\ requests' = [requests EXCEPT ![i].state = "rejected"]
        /\ chartsUpdating' = FALSE
        /\ performanceMode' = PerformanceModeAfter(requests[i])
        /\ UNCHANGED <<dashboardData, activeFiltersState, dataLimitState>>
        /\ UNCHANGED <<serviceVars, harnessVars, calcVars, routeVars>>

DashboardInit ==
    /\ DashboardAtRest
    /\ RoutesAtRest
    /\ ServiceAtRest
    /\ ValidationAtRest
    /\ CalculatorAtRest

DashboardNext ==
    \/ HandleFilterChange
    \/ HandleDataLimitChange
    \/ ResponseArrives
    \/ RequestFails

DashboardSpec == DashboardInit /\ [][DashboardNext]_vars

(* Properties of the Dashboard component *)

InFlight == {i \in DOMAIN requests : requests[i].state = "pending"}

\* C29: chartsUpdating is true while a request is in flight, and once the
\* responses of two or more requests have all arrived the dashboard shows
\* the result and the filters of the request issued last
C29_LastIssuedWinsUpdatingWhileInFlight ==
    /\ InFlight # {} => chartsUpdating
    /\ (Len(requests) >= 2 /\ \A i \in DOMAIN requests : requests[i].state = "resolved") =>
          LET last == requests[Len(requests)]
          IN  /\ activeFiltersState = last.filters
              /\ dashboardData = [dashboard |-> DashboardOf(last.filters, last.dataLimit),
                                  activeFilters |-> last.filters]
-----------------------------------------------------------------------------
(* Routes: POST /add-custom-chart and DELETE /custom-chart/:sessionId/:chartId *)

MaxCustomCharts == 2
MaxClock == 2

\* the sessions of the Map, and an id the Map does not hold
ChartSessions == {"session_1", "session_2"}
UnknownSession == "session_9"

\* req.body.chartCombination: a combination with chart data and one
\* without a measure, for which generateSingleChartConfig throws
ChartCombinations ==
    { [title |-> Str(<<"A">>), type |-> Str(<<"b","a","r">>), measures |-> <<Str(revenue)>>,
       dimensions |-> <<Str(region)>>],
      [title |-> Str(<<"C">>), type |-> Str(<<"b","a","r">>), measures |-> <<>>,
       dimensions |-> <<Str(region)>>] }

\* `custom_chart_${Date.now()}`
CustomChartId(t) == <<"c","u","s","t","o","m","_","c","h","a","r","t","_">> \o numberToString(t)

\* the ids a DELETE request may name
ChartIds == {CustomChartId(t) : t \in 0..MaxClock}

\* sessionData.customCharts, [] when the session has none yet
ChartsOf(sessionId) ==
    IF sessionId \in DOMAIN customCharts /\ IsArray(customCharts[sessionId])
    THEN customCharts[sessionId].v
    ELSE <<>>

\* POST /add-custom-chart: 404 for a session the Map does not hold, 500
\* when generateSingleChartConfig throws, else the chart is pushed with an
\* id made of the reading of Date.now()
AddCustomChart ==
    \E sessionId \in ChartSessions \cup {UnknownSession},
       chartCombination \in ChartCombinations :
        IF sessionId \notin sessions
        THEN /\ res' = [route |-> "add-custom-chart", status |-> 404,
                        sessionId |-> sessionId, chartId |-> <<>>]
             /\ UNCHANGED <<customCharts, now>>
             /\ UNCHANGED <<serviceVars, harnessVars, calcVars, dashboardVars>>
        ELSE LET filteredData == CustomChartData(DashboardRows, Undefined, Undefined)
                 chartConfig == generateSingleChartConfig(filteredData, SchemaOf(<<>>),
                                                          chartCombination)
             IN  IF chartConfig.threw
                 THEN /\ res' = [route |-> "add-custom-chart", status |-> 500,
                                 sessionId |-> sessionId, chartId |-> <<>>]
                      /\ UNCHANGED <<customCharts, now>>
                      /\ UNCHANGED <<serviceVars, harnessVars, calcVars, dashboardVars>>
                 ELSE /\ Len(ChartsOf(sessionId)) < MaxCustomCharts
                      /\ \E t \in now..MaxClock :
                            LET newChart == [config |-> chartConfig.value,
                                             id |-> CustomChartId(t),
                                             isCustom |-> TRUE]
                            IN  /\ now' = t
                                /\ customCharts' = [customCharts EXCEPT ![sessionId] =
                                                       Arr(Append(ChartsOf(sessionId), newChart))]
                                /\ res' = [route |-> "add-custom-chart", status |-> 200,
                                           sessionId |-> sessionId, chartId |-> newChart.id]
                      /\ UNCHANGED <<serviceVars, harnessVars, calcVars, dashboardVars>>

\* DELETE /custom-chart/:sessionId/:chartId: 404 for a session the Map
\* does not hold, for a session without customCharts and when the filter
\* removes nothing, else the filtered list is kept
DeleteCustomChart ==
    \E sessionId \in ChartSessions \cup {UnknownSession}, chartId \in ChartIds :
        LET filtered == SelectSeq(ChartsOf(sessionId), LAMBDA chart : chart.id # chartId)
            found == /\ sessionId \in sessions
                     /\ customCharts[sessionId] # Undefined
                     /\ Len(filtered) # Len(customCharts[sessionId].v)
        IN  /\ res' = [route |-> "custom-chart", status |-> IF found THEN 200 ELSE 404,
                       sessionId |-> sessionId, chartId |-> chartId]
            /\ customCharts' = IF found THEN [customCharts EXCEPT ![sessionId] = Arr(filtered)]
                               ELSE customCharts
            /\ UNCHANGED now
            /\ UNCHANGED <<serviceVars, harnessVars, calcVars, dashboardVars>>

RouteInit ==
    /\ DashboardAtRest
    /\ ValidationAtRest
    /\ CalculatorAtRest
    /\ apiKey = FALSE
    /\ cache = <<>>
    /\ calls = <<>>
    /\ hostFault = "none"
    /\ sessions = ChartSessions
    /\ customCharts = [s \in ChartSessions |-> Undefined]
    /\ now = 0
    /\ res = Pending

RouteNext ==
    \/ AddCustomChart
    \/ DeleteCustomChart

RouteSpec == RouteInit /\ [][RouteNext]_vars

(* Properties of the custom chart routes *)

IdsDistinct ==
    \A s \in DOMAIN customCharts :
        \A i, j \in DOMAIN ChartsOf(s) : i # j => ChartsOf(s)[i].id # ChartsOf(s)[j].id

\* what a DELETE request that has just been answered did to the lists
DeleteEffect ==
    ("route" \in DOMAIN res' /\ res'.route = "custom-chart") =>
        IF res'.status = 200
        THEN LET before == customCharts[res'.sessionId].v
                 after == customCharts'[res'.sessionId].v
             IN  /\ Len(after) = Len(before) - 1
                 /\ \A s \in DOMAIN customCharts \ {res'.sessionId} :
                        customCharts'[s] = customCharts[s]
                 /\ \A i \in DOMAIN before :
                        before[i].id # res'.chartId =>
                            \E j \in DOMAIN after : after[j] = before[i]
        ELSE customCharts' = customCharts

\* C30: the ids of the custom charts of a session are pairwise distinct; a
\* DELETE answered with success removed exactly one chart and left every
\* other chart and every other session as it was, and a DELETE answered
\* with 404 changed nothing
C30_DistinctIdsDeleteRemovesOne ==
    /\ []IdsDistinct
    /\ [][DeleteEffect]_vars

=============================================================================
